---- MODULE Spec2Model ----
(***************************************************************************)
(* ParentOS: the REST layer (authorization middleware, the parents,        *)
(* appointments and medical-notes routers, the auth router) over the       *)
(* database gateway, modelled as a state machine.                          *)
(*                                                                         *)
(* Conventions                                                             *)
(*  - a JSON string is a sequence of one-character strings, so that trim   *)
(*    and the time regular expression are computed, not assumed;           *)
(*  - a request body is a function whose domain is the set of fields the   *)
(*    body contains (req.body[f] !== undefined  <=>  f \in DOMAIN body);   *)
(*  - a UUID is a positive integer; a non-positive integer stands for a    *)
(*    string that is not a UUID;                                           *)
(*  - a value of a nullable field (age, communication_style,               *)
(*    last_contact) is <<v>>, and null is the empty sequence, in request   *)
(*    bodies and in rows alike;                                            *)
(*  - a handler is a pure operator from (request, world) to an outcome;    *)
(*    the actions apply it. A handler with two database round trips is     *)
(*    two operators, one per round trip.                                   *)
(***************************************************************************)
EXTENDS Integers, Sequences, FiniteSets, TLC

\* ------------------------------------------------------------------ bounds
MaxRows == 2
MaxTokens == 3

\* ------------------------------------------------------- program constants
AgeMin == 1
AgeMax == 150
PasswordMin == 6

\* ----------------------------------------------------------------- strings
Null == <<>>
EmptyBody == [f \in {} |-> <<>>]

IsSpace(c) == c = " "

RECURSIVE TrimStart(_)
TrimStart(s) == IF s # <<>> /\ IsSpace(Head(s)) THEN TrimStart(Tail(s)) ELSE s

RECURSIVE TrimEnd(_)
TrimEnd(s) ==
  IF s # <<>> /\ IsSpace(s[Len(s)]) THEN TrimEnd(SubSeq(s, 1, Len(s) - 1)) ELSE s

trim(s) == TrimEnd(TrimStart(s))

DigitChars == <<"0", "1", "2", "3", "4", "5", "6", "7", "8", "9">>
\* the character class [lo-hi]
CharClass(lo, hi) == {DigitChars[i + 1] : i \in lo..hi}

\* ([0-1]?[0-9]|2[0-3])
HourPartMatches(h) ==
  \/ Len(h) = 1 /\ h[1] \in CharClass(0, 9)
  \/ Len(h) = 2 /\ h[1] \in CharClass(0, 1) /\ h[2] \in CharClass(0, 9)
  \/ Len(h) = 2 /\ h[1] = "2" /\ h[2] \in CharClass(0, 3)

\* [0-5][0-9]
MinutePartMatches(m) ==
  Len(m) = 2 /\ m[1] \in CharClass(0, 5) /\ m[2] \in CharClass(0, 9)

\* /^([0-1]?[0-9]|2[0-3]):[0-5][0-9]$/
MatchesTimeRegex(s) ==
  \E k \in 1..Len(s) :
    /\ s[k] = ":"
    /\ HourPartMatches(SubSeq(s, 1, k - 1))
    /\ MinutePartMatches(SubSeq(s, k + 1, Len(s)))

\* ------------------------------------------------------------------- dates
\* An ISO-8601 value is <<calendar date>> or <<calendar date, time part>>.
IsoDays == <<"2024-01-15", "2024-03-01">>
IsoTimeParts == {"T10:30:00Z"}
DayIndex(d) == CHOOSE i \in 1..Len(IsoDays) : IsoDays[i] = d

isISO8601(v) ==
  /\ Len(v) \in {1, 2}
  /\ \E i \in 1..Len(IsoDays) : IsoDays[i] = v[1]
  /\ Len(v) = 2 => v[2] \in IsoTimeParts

\* a DATE column keeps the calendar date only
DateColumn(v) == <<v[1]>>

\* ------------------------------------------------------------- validators
Relationships == {"mom", "dad", "guardian"}
CommunicationStyles == {"calls", "texts", "visits", "emails"}
NoteTypes == {"appointment", "medication", "symptom", "general"}

\* max is excluded
isIntBelow(v, min, max) == v \in Int /\ min <= v /\ v < max
isInt(v, min, max) == v \in Int /\ min <= v /\ v <= max
isUUID(v) == v \in Int /\ v > 0
isEmail(v) == \E k \in 2..(Len(v) - 1) : v[k] = "@"

Passes(kind, v) ==
  CASE kind = "text" -> Len(trim(v)) >= 1
    [] kind = "age" -> v # Null /\ isInt(v[1], AgeMin, AgeMax)
    [] kind = "relationship" -> v \in Relationships
    [] kind = "communication_style" -> v # Null /\ v[1] \in CommunicationStyles
    [] kind = "type" -> v \in NoteTypes
    [] kind = "uuid" -> isUUID(v)
    [] kind = "date" -> isISO8601(v)
    [] kind = "time" -> MatchesTimeRegex(v)
    [] kind = "email" -> isEmail(v)
    [] kind = "password" -> Len(v) >= PasswordMin
    [] kind = "notEmpty" -> Len(v) >= 1
    [] kind = "array" -> DOMAIN v = 1..Len(v)
    [] kind = "string" -> DOMAIN v = 1..Len(v)
    [] kind = "boolean" -> v \in BOOLEAN

V(path, kind, optional, msg) ==
  [path |-> path, kind |-> kind, optional |-> optional, msg |-> msg]

ParentsPostValidators == <<
  V("name", "text", FALSE, "Name is required"),
  V("age", "age", TRUE, "Age must be between 1 and 150"),
  V("relationship", "relationship", FALSE, "Invalid relationship type"),
  V("personality", "array", TRUE, "Personality must be an array"),
  V("interests", "array", TRUE, "Interests must be an array"),
  V("challenges", "array", TRUE, "Challenges must be an array"),
  V("communication_style", "communication_style", TRUE, "Invalid communication style"),
  V("relationship_goals", "array", TRUE, "Relationship goals must be an array") >>

ParentsPutValidators == <<
  V("name", "text", TRUE, "Name cannot be empty"),
  V("age", "age", TRUE, "Age must be between 1 and 150"),
  V("relationship", "relationship", TRUE, "Invalid relationship type"),
  V("personality", "array", TRUE, "Personality must be an array"),
  V("interests", "array", TRUE, "Interests must be an array"),
  V("challenges", "array", TRUE, "Challenges must be an array"),
  V("communication_style", "communication_style", TRUE, "Invalid communication style"),
  V("relationship_goals", "array", TRUE, "Relationship goals must be an array") >>

AppointmentsPostValidators == <<
  V("parent_id", "uuid", FALSE, "Valid parent ID required"),
  V("date", "date", FALSE, "Valid date required (YYYY-MM-DD)"),
  V("time", "time", FALSE, "Valid time required (HH:MM)"),
  V("doctor", "text", FALSE, "Doctor name is required"),
  V("specialty", "text", FALSE, "Specialty is required"),
  V("location", "text", FALSE, "Location is required"),
  V("reason", "text", FALSE, "Reason is required"),
  V("notes", "string", TRUE, "Notes must be a string"),
  V("follow_up_needed", "boolean", TRUE, "Follow up needed must be boolean") >>

AppointmentsPutValidators == <<
  V("date", "date", TRUE, "Valid date required (YYYY-MM-DD)"),
  V("time", "time", TRUE, "Valid time required (HH:MM)"),
  V("doctor", "text", TRUE, "Doctor name cannot be empty"),
  V("specialty", "text", TRUE, "Specialty cannot be empty"),
  V("location", "text", TRUE, "Location cannot be empty"),
  V("reason", "text", TRUE, "Reason cannot be empty"),
  V("notes", "string", TRUE, "Notes must be a string"),
  V("completed", "boolean", TRUE, "Completed must be boolean"),
  V("follow_up_needed", "boolean", TRUE, "Follow up needed must be boolean") >>

NotesPostValidators == <<
  V("parent_id", "uuid", FALSE, "Valid parent ID required"),
  V("date", "date", FALSE, "Valid date required (YYYY-MM-DD)"),
  V("type", "type", FALSE, "Invalid note type"),
  V("title", "text", FALSE, "Title is required"),
  V("content", "text", FALSE, "Content is required") >>

NotesPutValidators == <<
  V("date", "date", TRUE, "Valid date required (YYYY-MM-DD)"),
  V("type", "type", TRUE, "Invalid note type"),
  V("title", "text", TRUE, "Title cannot be empty"),
  V("content", "text", TRUE, "Content cannot be empty") >>

RegisterValidators == <<
  V("email", "email", FALSE, "Valid email required"),
  V("password", "password", FALSE, "Password must be at least 6 characters"),
  V("name", "text", FALSE, "Name is required") >>

LoginValidators == <<
  V("email", "email", FALSE, "Valid email required"),
  V("password", "notEmpty", FALSE, "Password required") >>

\* one validator of a chain fails on the body
Fails(v, body) ==
  IF v.path \in DOMAIN body THEN ~Passes(v.kind, body[v.path]) ELSE ~v.optional

\* validationResult(req).array(): one entry per failing chain, in chain order
validationResult(validators, body) ==
  LET failing == SelectSeq(validators, LAMBDA v : Fails(v, body))
  IN  [i \in 1..Len(failing) |-> [path |-> failing[i].path, msg |-> failing[i].msg]]

\* the chains' .trim() sanitizers write the trimmed value back into req.body
Sanitized(validators, body) ==
  LET trimmed == {validators[i].path : i \in {j \in 1..Len(validators) : validators[j].kind = "text"}}
  IN  [f \in DOMAIN body |-> IF f \in trimmed THEN trim(body[f]) ELSE body[f]]

\* ---------------------------------------------------------------- database
Tables == {"parents", "appointments", "medical_notes"}
ChildTables == {"appointments", "medical_notes"}

\* the value a column stores for a submitted JSON value
ColumnValue(col, v) == IF col = "date" THEN DateColumn(v) ELSE v

\* column DEFAULTs of CREATE TABLE, for the columns the handlers may leave out
ColumnDefaults(table) ==
  CASE table = "parents" -> [last_contact |-> Null]
    [] table = "appointments" -> EmptyBody
    [] table = "medical_notes" -> EmptyBody

\* every filter is an equality, all ANDed
Matches(row, filters) == \A k \in DOMAIN filters : row[k] = filters[k]

\* rows with equal sort keys come in the order of the provider's choice: tie,
\* a ranking of the row ids
Rank(tie, id) == CHOOSE i \in 1..Len(tie) : tie[i] = id

\* options.orderBy of the callers
ByCreatedAtAsc == [column |-> "created_at", tie |-> <<>>]
ByDateDesc(tie) == [column |-> "date", tie |-> tie]

\* row a may come before row b under the ordering
Before(orderBy, a, b) ==
  IF orderBy.column = "created_at"
  THEN a.created_at <= b.created_at
  ELSE \/ DayIndex(a.date[1]) > DayIndex(b.date[1])
       \/ a.date = b.date /\ Rank(orderBy.tie, a.id) <= Rank(orderBy.tie, b.id)

\* the sequences that list the rows of S once each, in the order asked for
Orderings(S, orderBy) ==
  {q \in [1..Cardinality(S) -> S] :
     /\ \A i, j \in 1..Cardinality(S) : i # j => q[i] # q[j]
     /\ \A i, j \in 1..Cardinality(S) : i < j => Before(orderBy, q[i], q[j])}

OrderRows(S, orderBy) == CHOOSE q \in Orderings(S, orderBy) : TRUE

\* selectRows(table, filters, options): the matching rows (ordering is applied
\* by the caller's orderBy option)
selectRows(db, table, filters) == {r \in db[table] : Matches(r, filters)}

\* the first of the matching rows, as .limit(1) without .single() would give
selectRowOfAny(db, table, filters) ==
  LET m == selectRows(db, table, filters)
  IN  IF m # {}
      THEN [error |-> "", data |-> CHOOSE r \in m : TRUE]
      ELSE [error |-> "PGRST116", data |-> EmptyBody]

\* selectRow(table, filters): .single() fails with PGRST116 unless exactly one
\* row matches
selectRow(db, table, filters) ==
  LET m == selectRows(db, table, filters)
  IN  IF Cardinality(m) = 1
      THEN [error |-> "", data |-> CHOOSE r \in m : TRUE]
      ELSE [error |-> "PGRST116", data |-> EmptyBody]

\* a table without the REFERENCES constraint
ForeignKeyUnchecked(db, table, row) == TRUE

\* parent_id REFERENCES public.parents(id)
ForeignKeyHolds(db, table, row) ==
  table \in ChildTables => \E p \in db.parents : p.id = row.parent_id

\* insertRow(table, data): the inserted row with its generated id and
\* created_at; a constraint violation is an error and inserts nothing
insertRow(w, table, data) ==
  LET id == w.nextId[table]
      given == [c \in DOMAIN data |-> ColumnValue(c, data[c])]
      row == [id |-> id, created_at |-> id] @@ given @@ ColumnDefaults(table)
  IN  IF ForeignKeyHolds(w.db, table, given)
      THEN [error |-> "", data |-> row,
            w |-> [w EXCEPT !.db[table] = @ \cup {row}, !.nextId[table] = @ + 1]]
      ELSE [error |-> "23503", data |-> EmptyBody, w |-> w]

ApplyUpdates(row, updates) ==
  [c \in DOMAIN row |->
     IF c \in DOMAIN updates THEN ColumnValue(c, updates[c]) ELSE row[c]]

\* updateRow(table, filters, updates): .select().single() fails with PGRST116
\* unless exactly one row was updated
updateRow(w, table, filters, updates) ==
  LET m == selectRows(w.db, table, filters)
      old == CHOOSE r \in m : TRUE
      new == ApplyUpdates(old, updates)
  IN  IF Cardinality(m) = 1
      THEN [error |-> "", data |-> new,
            w |-> [w EXCEPT !.db[table] = (@ \ {old}) \cup {new}]]
      ELSE [error |-> "PGRST116", data |-> EmptyBody, w |-> w]

\* ON DELETE CASCADE of appointments.parent_id and medical_notes.parent_id
Cascade(db, gone) ==
  [t \in Tables |->
     IF t \in ChildTables
     THEN {r \in db[t] : r.parent_id \notin {p.id : p \in gone}}
     ELSE db[t]]

\* reports success and deletes nothing
deleteRowOfNone(w, table, filters) == [error |-> "", w |-> w]

\* a delete that matches no row is an error, as .single() would make it
deleteRowOfSome(w, table, filters) ==
  LET m == selectRows(w.db, table, filters)
      left == [w.db EXCEPT ![table] = @ \ m]
  IN  IF m = {} THEN [error |-> "PGRST116", w |-> w]
      ELSE [error |-> "",
            w |-> [w EXCEPT !.db = IF table = "parents" THEN Cascade(left, m) ELSE left]]

\* deleteRow(table, filters): deletes the matching rows, none included
deleteRow(w, table, filters) ==
  LET m == selectRows(w.db, table, filters)
      left == [w.db EXCEPT ![table] = @ \ m]
  IN  [error |-> "",
       w |-> [w EXCEPT !.db = IF table = "parents" THEN Cascade(left, m) ELSE left]]

\* from(table).select('*, parents!inner(...)'): the rows of a child table
\* joined with their parent, each carrying the embedded columns
InnerJoinParents(db, table, embed) ==
  {[row |-> r, parents |-> [c \in embed |-> p[c]]] :
     <<r, p>> \in {x \in db[table] \X db.parents : x[1].parent_id = x[2].id}}

Embedded(j) == j.row @@ [parents |-> j.parents]

\* ---------------------------------------------------------------- outcomes
\* What a handler has done when it next waits or responds: the response (pc =
\* "done"), or the call it is waiting for (pc = the call, pending = what the
\* continuation needs); calls lists the provider calls issued so far; w is
\* the world after the calls that have completed.
Done(status, body, calls, w) ==
  [pc |-> "done", status |-> status, body |-> body, calls |-> calls,
   pending |-> EmptyBody, w |-> w]

Await(call, pending, calls, w) ==
  [pc |-> call, status |-> 0, body |-> EmptyBody, calls |-> Append(calls, call),
   pending |-> pending, w |-> w]

ValidationFailed(errors, w) ==
  Done(400, [error |-> "Validation failed", details |-> errors], <<>>, w)

Present(body, f, default) == IF f \in DOMAIN body THEN body[f] ELSE default

\* age || null
AgeOrNull(body) ==
  IF "age" \in DOMAIN body /\ body.age # Null /\ body.age[1] # 0 THEN body.age ELSE Null

\* communication_style || null
StyleOrNull(body) ==
  IF /\ "communication_style" \in DOMAIN body
     /\ body.communication_style # Null
     /\ body.communication_style[1] # ""
  THEN body.communication_style
  ELSE Null

\* every field of the body, allow-listed or not
UpdatesOfAnyField(allowedFields, body) == body

\* allowedFields.forEach(field => { if (req.body[field] !== undefined) ... })
Updates(allowedFields, body) == [f \in allowedFields \cap DOMAIN body |-> body[f]]

\* ------------------------------------------------------------ parents router
ParentsAllowedFields ==
  {"name", "age", "relationship", "personality", "interests", "challenges",
   "communication_style", "relationship_goals", "last_contact"}

\* the parents of every user
ParentsGetListOfAllUsers(req, user, w) ==
  Done(200, [parents |-> OrderRows(w.db.parents, ByCreatedAtAsc)], <<"selectRows">>, w)

\* router.get('/')
ParentsGetList(req, user, w) ==
  LET parents == selectRows(w.db, "parents", [user_id |-> user])
  IN  Done(200, [parents |-> OrderRows(parents, ByCreatedAtAsc)], <<"selectRows">>, w)

\* router.get('/:id')
ParentsGetById(req, user, w) ==
  LET found == selectRow(w.db, "parents", [id |-> req.id, user_id |-> user])
  IN  IF found.error = "" THEN Done(200, [parent |-> found.data], <<"selectRow">>, w)
      ELSE IF found.error = "PGRST116"
      THEN Done(404, [error |-> "Parent not found"], <<"selectRow">>, w)
      ELSE Done(500, [error |-> "Failed to get parent"], <<"selectRow">>, w)

\* the owner is taken from the body when the body names one
ParentsPostOfBodyOwner(req, user, w) ==
  LET errors == validationResult(ParentsPostValidators, req.body)
      body == Sanitized(ParentsPostValidators, req.body)
      parentData ==
        [user_id |-> Present(body, "user_id", user),
         name |-> body.name,
         age |-> AgeOrNull(body),
         relationship |-> body.relationship,
         personality |-> Present(body, "personality", <<>>),
         interests |-> Present(body, "interests", <<>>),
         challenges |-> Present(body, "challenges", <<>>),
         communication_style |-> StyleOrNull(body),
         relationship_goals |-> Present(body, "relationship_goals", <<>>)]
      inserted == insertRow(w, "parents", parentData)
  IN  IF errors # <<>> THEN ValidationFailed(errors, w)
      ELSE IF inserted.error # ""
      THEN Done(500, [error |-> "Failed to create parent profile"], <<"insertRow">>, w)
      ELSE Done(201, [message |-> "Parent profile created successfully",
                      parent |-> inserted.data], <<"insertRow">>, inserted.w)

\* router.post('/')
ParentsPost(req, user, w) ==
  LET errors == validationResult(ParentsPostValidators, req.body)
      body == Sanitized(ParentsPostValidators, req.body)
      parentData ==
        [user_id |-> user,
         name |-> body.name,
         age |-> AgeOrNull(body),
         relationship |-> body.relationship,
         personality |-> Present(body, "personality", <<>>),
         interests |-> Present(body, "interests", <<>>),
         challenges |-> Present(body, "challenges", <<>>),
         communication_style |-> StyleOrNull(body),
         relationship_goals |-> Present(body, "relationship_goals", <<>>)]
      inserted == insertRow(w, "parents", parentData)
  IN  IF errors # <<>> THEN ValidationFailed(errors, w)
      ELSE IF inserted.error # ""
      THEN Done(500, [error |-> "Failed to create parent profile"], <<"insertRow">>, w)
      ELSE Done(201, [message |-> "Parent profile created successfully",
                      parent |-> inserted.data], <<"insertRow">>, inserted.w)

\* the parent is fetched before the validation result is read
ParentsPutFetchedFirst(req, user, w) ==
  LET errors == validationResult(ParentsPutValidators, req.body)
      body == Sanitized(ParentsPutValidators, req.body)
      found == selectRow(w.db, "parents", [id |-> req.id, user_id |-> user])
      updates == Updates(ParentsAllowedFields, body)
  IN  IF found.error = "PGRST116"
      THEN Done(404, [error |-> "Parent not found"], <<"selectRow">>, w)
      ELSE IF errors # <<>>
      THEN Done(400, [error |-> "Validation failed", details |-> errors], <<"selectRow">>, w)
      ELSE IF DOMAIN updates = {}
      THEN Done(400, [error |-> "No fields to update"], <<"selectRow">>, w)
      ELSE Await("updateRow", updates, <<"selectRow">>, w)

\* router.put('/:id'), up to the updateRow call
ParentsPut(req, user, w) ==
  LET errors == validationResult(ParentsPutValidators, req.body)
      body == Sanitized(ParentsPutValidators, req.body)
      found == selectRow(w.db, "parents", [id |-> req.id, user_id |-> user])
      updates == Updates(ParentsAllowedFields, body)
  IN  IF errors # <<>> THEN ValidationFailed(errors, w)
      ELSE IF found.error = "PGRST116"
      THEN Done(404, [error |-> "Parent not found"], <<"selectRow">>, w)
      ELSE IF found.error # ""
      THEN Done(500, [error |-> "Failed to update parent profile"], <<"selectRow">>, w)
      ELSE IF DOMAIN updates = {}
      THEN Done(400, [error |-> "No fields to update"], <<"selectRow">>, w)
      ELSE Await("updateRow", updates, <<"selectRow">>, w)

\* router.put('/:id'), from the updateRow call on
ParentsPutUpdated(req, user, updates, calls, w) ==
  LET updated == updateRow(w, "parents", [id |-> req.id, user_id |-> user], updates)
  IN  IF updated.error # ""
      THEN Done(500, [error |-> "Failed to update parent profile"], calls, w)
      ELSE Done(200, [message |-> "Parent profile updated successfully",
                      parent |-> updated.data], calls, updated.w)

\* router.delete('/:id'), up to the deleteRow call
ParentsDelete(req, user, w) ==
  LET found == selectRow(w.db, "parents", [id |-> req.id, user_id |-> user])
  IN  IF found.error = "PGRST116"
      THEN Done(404, [error |-> "Parent not found"], <<"selectRow">>, w)
      ELSE IF found.error # ""
      THEN Done(500, [error |-> "Failed to delete parent profile"], <<"selectRow">>, w)
      ELSE Await("deleteRow", EmptyBody, <<"selectRow">>, w)

\* router.delete('/:id'), from the deleteRow call on
ParentsDeleted(req, user, pending, calls, w) ==
  LET deleted == deleteRow(w, "parents", [id |-> req.id, user_id |-> user])
  IN  Done(200, [message |-> "Parent profile deleted successfully"], calls, deleted.w)

\* ------------------------------------- appointments and medical-notes routers
\* The two routers are the same code over two tables; what differs is here.
AppointmentsAllowedFields ==
  {"date", "time", "doctor", "specialty", "location", "reason", "notes",
   "completed", "follow_up_needed"}

NotesAllowedFields == {"date", "type", "title", "content"}

\* an appointment that is created completed
AppointmentDataCompleted(body) ==
  [parent_id |-> body.parent_id,
   date |-> body.date,
   time |-> body.time,
   doctor |-> body.doctor,
   specialty |-> body.specialty,
   location |-> body.location,
   reason |-> body.reason,
   notes |-> Present(body, "notes", <<>>),
   follow_up_needed |-> Present(body, "follow_up_needed", FALSE),
   completed |-> TRUE]

\* appointmentData of router.post('/')
AppointmentData(body) ==
  [parent_id |-> body.parent_id,
   date |-> body.date,
   time |-> body.time,
   doctor |-> body.doctor,
   specialty |-> body.specialty,
   location |-> body.location,
   reason |-> body.reason,
   notes |-> Present(body, "notes", <<>>),
   follow_up_needed |-> Present(body, "follow_up_needed", FALSE),
   completed |-> FALSE]

\* noteData of router.post('/')
NoteData(body) ==
  [parent_id |-> body.parent_id,
   date |-> body.date,
   type |-> body.type,
   title |-> body.title,
   content |-> body.content]

Router(table) ==
  IF table = "appointments"
  THEN [table |-> table, list |-> "appointments", item |-> "appointment",
        postValidators |-> AppointmentsPostValidators,
        putValidators |-> AppointmentsPutValidators,
        allowedFields |-> AppointmentsAllowedFields,
        notFound |-> "Appointment not found",
        getFailed |-> "Failed to get appointments",
        createFailed |-> "Failed to create appointment",
        updateFailed |-> "Failed to update appointment",
        deleteFailed |-> "Failed to delete appointment",
        created |-> "Appointment created successfully",
        updated |-> "Appointment updated successfully",
        deleted |-> "Appointment deleted successfully"]
  ELSE [table |-> table, list |-> "notes", item |-> "note",
        postValidators |-> NotesPostValidators,
        putValidators |-> NotesPutValidators,
        allowedFields |-> NotesAllowedFields,
        notFound |-> "Medical note not found",
        getFailed |-> "Failed to get medical notes",
        createFailed |-> "Failed to create medical note",
        updateFailed |-> "Failed to update medical note",
        deleteFailed |-> "Failed to delete medical note",
        created |-> "Medical note created successfully",
        updated |-> "Medical note updated successfully",
        deleted |-> "Medical note deleted successfully"]

RowData(table, body) ==
  IF table = "appointments" THEN AppointmentData(body) ELSE NoteData(body)

\* router.get('/') and router.get('/type/:type'), up to the child-table query
ChildGetList(r, req, user, w) ==
  LET parents == selectRows(w.db, "parents", [user_id |-> user])
      parentIds == {p.id : p \in parents}
  IN  IF req.route = "GET /api/notes/type/:type" /\ req.type \notin NoteTypes
      THEN Done(400, [error |-> "Invalid note type"], <<>>, w)
      ELSE IF parentIds = {}
      THEN Done(200, (r.list :> <<>>), <<"selectRows">>, w)
      ELSE Await("select", parentIds, <<"selectRows">>, w)

\* the child-table query without .in('parent_id', parentIds)
ChildGetListOfAllParents(r, req, user, parentIds, calls, w) ==
  LET joined == InnerJoinParents(w.db, r.table, {"id", "name", "user_id"})
      rows == {Embedded(j) : j \in {k \in joined :
                 req.route = "GET /api/notes/type/:type" => k.row.type = req.type}}
  IN  Done(200, (r.list :> OrderRows(rows, ByDateDesc(req.tie))),
           calls, w)

\* ... from the child-table query on:
\* .select('*, parents!inner(id, name, user_id)').in('parent_id', parentIds)
\*   [.eq('type', type)].order('date', { ascending: false })
ChildGetListSelected(r, req, user, parentIds, calls, w) ==
  LET joined == InnerJoinParents(w.db, r.table, {"id", "name", "user_id"})
      rows == {Embedded(j) : j \in {k \in joined :
                 /\ k.row.parent_id \in parentIds
                 /\ req.route = "GET /api/notes/type/:type" => k.row.type = req.type}}
  IN  Done(200, (r.list :> OrderRows(rows, ByDateDesc(req.tie))),
           calls, w)

\* router.get('/parent/:parentId'), up to the selectRows call
ChildGetByParent(r, req, user, w) ==
  LET found == selectRow(w.db, "parents", [id |-> req.id, user_id |-> user])
  IN  IF found.error = "PGRST116"
      THEN Done(404, [error |-> "Parent not found"], <<"selectRow">>, w)
      ELSE IF found.error # ""
      THEN Done(500, [error |-> r.getFailed], <<"selectRow">>, w)
      ELSE Await("selectRows", EmptyBody, <<"selectRow">>, w)

\* router.get('/parent/:parentId'), from the selectRows call on
ChildGetByParentSelected(r, req, user, pending, calls, w) ==
  LET rows == selectRows(w.db, r.table, [parent_id |-> req.id])
  IN  Done(200, (r.list :> OrderRows(rows, ByDateDesc(req.tie))),
           calls, w)

\* the parent is looked up by its id alone
ChildPostOfAnyParent(r, req, user, w) ==
  LET errors == validationResult(r.postValidators, req.body)
      body == Sanitized(r.postValidators, req.body)
      found == selectRow(w.db, "parents", [id |-> body.parent_id])
  IN  IF errors # <<>> THEN ValidationFailed(errors, w)
      ELSE IF found.error = "PGRST116"
      THEN Done(404, [error |-> "Parent not found"], <<"selectRow">>, w)
      ELSE Await("insertRow", RowData(r.table, body), <<"selectRow">>, w)

\* router.post('/'), up to the insertRow call
ChildPost(r, req, user, w) ==
  LET errors == validationResult(r.postValidators, req.body)
      body == Sanitized(r.postValidators, req.body)
      found == selectRow(w.db, "parents", [id |-> body.parent_id, user_id |-> user])
  IN  IF errors # <<>> THEN ValidationFailed(errors, w)
      ELSE IF found.error = "PGRST116"
      THEN Done(404, [error |-> "Parent not found"], <<"selectRow">>, w)
      ELSE IF found.error # ""
      THEN Done(500, [error |-> r.createFailed], <<"selectRow">>, w)
      ELSE Await("insertRow", RowData(r.table, body), <<"selectRow">>, w)

\* router.post('/'), from the insertRow call on
ChildPostInserted(r, req, user, data, calls, w) ==
  LET inserted == insertRow(w, r.table, data)
  IN  IF inserted.error # ""
      THEN Done(500, [error |-> r.createFailed], calls, w)
      ELSE Done(201, ("message" :> r.created) @@ (r.item :> inserted.data),
                calls, inserted.w)

\* the row exists, whoever owns it
OwnedChildOfAnyUser(db, table, id, user) ==
  \E j \in InnerJoinParents(db, table, {"user_id"}) : j.row.id = id

\* .select('*, parents!inner(user_id)').eq('id', req.params.id).single()
\* followed by: error || !row || row.parents.user_id !== req.user.id
OwnedChild(db, table, id, user) ==
  LET m == {j \in InnerJoinParents(db, table, {"user_id"}) : j.row.id = id}
  IN  Cardinality(m) = 1 /\ \A j \in m : j.parents.user_id = user

\* the allow-list check precedes the ownership check
ChildPutAllowListFirst(r, req, user, w) ==
  LET errors == validationResult(r.putValidators, req.body)
      body == Sanitized(r.putValidators, req.body)
      updates == Updates(r.allowedFields, body)
  IN  IF errors # <<>> THEN ValidationFailed(errors, w)
      ELSE IF DOMAIN updates = {}
      THEN Done(400, [error |-> "No fields to update"], <<>>, w)
      ELSE IF ~OwnedChild(w.db, r.table, req.id, user)
      THEN Done(404, [error |-> r.notFound], <<"select">>, w)
      ELSE Await("updateRow", updates, <<"select">>, w)

\* router.put('/:id'), up to the updateRow call
ChildPut(r, req, user, w) ==
  LET errors == validationResult(r.putValidators, req.body)
      body == Sanitized(r.putValidators, req.body)
      updates == Updates(r.allowedFields, body)
  IN  IF errors # <<>> THEN ValidationFailed(errors, w)
      ELSE IF ~OwnedChild(w.db, r.table, req.id, user)
      THEN Done(404, [error |-> r.notFound], <<"select">>, w)
      ELSE IF DOMAIN updates = {}
      THEN Done(400, [error |-> "No fields to update"], <<"select">>, w)
      ELSE Await("updateRow", updates, <<"select">>, w)

\* router.put('/:id'), from the updateRow call on
ChildPutUpdated(r, req, user, updates, calls, w) ==
  LET updated == updateRow(w, r.table, [id |-> req.id], updates)
  IN  IF updated.error # ""
      THEN Done(500, [error |-> r.updateFailed], calls, w)
      ELSE Done(200, ("message" :> r.updated) @@ (r.item :> updated.data),
                calls, updated.w)

\* router.delete('/:id'), up to the deleteRow call
ChildDelete(r, req, user, w) ==
  IF ~OwnedChild(w.db, r.table, req.id, user)
  THEN Done(404, [error |-> r.notFound], <<"select">>, w)
  ELSE Await("deleteRow", EmptyBody, <<"select">>, w)

\* router.delete('/:id'), from the deleteRow call on
ChildDeleted(r, req, user, pending, calls, w) ==
  LET deleted == deleteRow(w, r.table, [id |-> req.id])
  IN  Done(200, [message |-> r.deleted], calls, deleted.w)

\* ----------------------------------------------------------- auth provider
\* The external provider, as the routers use it. accounts maps an email to its
\* account, sessions maps an access token the provider resolves to its user;
\* confirm is the provider's "confirm email" setting; during an outage the
\* client's requests to the provider fail, and the client returns the failure
\* as the call's error.
EmailA == <<"a", "@", "b">>
EmailB == <<"c", "@", "d">>
UserIdOf(email) == IF email = EmailA THEN "A" ELSE "B"

\* supabase.auth.signUp({ email, password, options: { data: { name } } })
signUp(w, email, password, name) ==
  LET user == [id |-> UserIdOf(email), email |-> email, user_metadata |-> [name |-> name]]
      account == [password |-> password, user |-> user, confirmed |-> ~w.confirm]
      created == [w EXCEPT !.accounts = (email :> account) @@ @]
  IN  IF w.outage
      THEN [error |-> "fetch failed", user |-> EmptyBody, session |-> Null, w |-> w]
      ELSE IF email \in DOMAIN w.accounts
      THEN [error |-> "User already registered", user |-> EmptyBody, session |-> Null, w |-> w]
      ELSE IF w.confirm
      THEN [error |-> "", user |-> user, session |-> Null, w |-> created]
      ELSE [error |-> "", user |-> user, session |-> <<[access_token |-> w.nextToken]>>,
            w |-> [created EXCEPT !.sessions = (w.nextToken :> user.id) @@ @,
                                  !.nextToken = @ + 1]]

\* supabase.auth.signInWithPassword({ email, password })
signInWithPassword(w, email, password) ==
  IF w.outage
  THEN [error |-> "fetch failed", user |-> EmptyBody, session |-> Null, w |-> w]
  ELSE IF email \notin DOMAIN w.accounts \/ w.accounts[email].password # password
  THEN [error |-> "Invalid login credentials", user |-> EmptyBody, session |-> Null, w |-> w]
  ELSE IF ~w.accounts[email].confirmed
  THEN [error |-> "Email not confirmed", user |-> EmptyBody, session |-> Null, w |-> w]
  ELSE [error |-> "", user |-> w.accounts[email].user,
        session |-> <<[access_token |-> w.nextToken]>>,
        w |-> [w EXCEPT !.sessions = (w.nextToken :> w.accounts[email].user.id) @@ @,
                        !.nextToken = @ + 1]]

\* ---------------------------------------------------------------- middleware
\* authenticateToken: no bearer token is Unauthorized at once; a token is
\* resolved by the provider on every request
authenticateToken(req, w) ==
  IF req.auth = {}
  THEN [ok |-> FALSE, user |-> "", calls |-> <<>>, error |-> "Unauthorized"]
  ELSE LET token == CHOOSE t \in req.auth : TRUE
       IN  IF ~w.outage /\ token \in DOMAIN w.sessions
           THEN [ok |-> TRUE, user |-> w.sessions[token], calls |-> <<"auth.getUser">>,
                 error |-> ""]
           ELSE [ok |-> FALSE, user |-> "", calls |-> <<"auth.getUser">>,
                 error |-> "Unauthorized"]

\* the notes router is mounted without the middleware
UsesAuthenticateTokenButNotes(router) == router \in {"parents", "appointments"}

\* router.use(authenticateToken) of the parents, appointments and notes routers
UsesAuthenticateToken(router) == router \in {"parents", "appointments", "notes"}

\* --------------------------------------------------------------- auth router
UserOf(user, name) == [id |-> user.id, email |-> user.email, name |-> name]

\* user.user_metadata.name || name
NameOr(user, name) ==
  IF user.user_metadata.name # <<>> THEN user.user_metadata.name ELSE name

\* a sign-in is attempted after any sign-up error
AuthRegisterSignsInOnAnyError(req, w) ==
  LET errors == validationResult(RegisterValidators, req.body)
      body == Sanitized(RegisterValidators, req.body)
      signedUp == signUp(w, body.email, body.password, body.name)
  IN  IF errors # <<>> THEN ValidationFailed(errors, w)
      ELSE IF signedUp.error # ""
      THEN Await("auth.signInWithPassword", [branch |-> "exists"], <<"auth.signUp">>, w)
      ELSE IF signedUp.session = Null
      THEN Await("auth.signInWithPassword", [branch |-> "no session", user |-> signedUp.user],
                 <<"auth.signUp">>, signedUp.w)
      ELSE Done(201, [message |-> "User registered successfully",
                      user |-> UserOf(signedUp.user, signedUp.user.user_metadata.name),
                      session |-> signedUp.session],
                <<"auth.signUp">>, signedUp.w)

\* router.post('/register'), up to the response or the signInWithPassword call
AuthRegister(req, w) ==
  LET errors == validationResult(RegisterValidators, req.body)
      body == Sanitized(RegisterValidators, req.body)
      signedUp == signUp(w, body.email, body.password, body.name)
  IN  IF errors # <<>> THEN ValidationFailed(errors, w)
      ELSE IF signedUp.error # ""
      THEN IF signedUp.error = "User already registered"
           THEN Await("auth.signInWithPassword", [branch |-> "exists"],
                      <<"auth.signUp">>, w)
           ELSE Done(400, [error |-> signedUp.error], <<"auth.signUp">>, w)
      ELSE IF signedUp.session = Null
      THEN Await("auth.signInWithPassword", [branch |-> "no session", user |-> signedUp.user],
                 <<"auth.signUp">>, signedUp.w)
      ELSE Done(201, [message |-> "User registered successfully",
                      user |-> UserOf(signedUp.user, signedUp.user.user_metadata.name),
                      session |-> signedUp.session],
                <<"auth.signUp">>, signedUp.w)

\* router.post('/register'), from the signInWithPassword call on
AuthRegisterSignedIn(req, pending, calls, w) ==
  LET body == Sanitized(RegisterValidators, req.body)
      signedIn == signInWithPassword(w, body.email, body.password)
  IN  IF pending.branch = "exists"
      THEN IF signedIn.error # ""
           THEN Done(400, [error |-> "User already exists. Please login instead."], calls, w)
           ELSE Done(200, [message |-> "User already exists, logged in successfully",
                           user |-> UserOf(signedIn.user, NameOr(signedIn.user, body.name)),
                           session |-> signedIn.session], calls, signedIn.w)
      ELSE IF signedIn.error = "" /\ signedIn.session # Null
           THEN Done(201, [message |-> "User registered and logged in successfully",
                           user |-> UserOf(signedIn.user, NameOr(signedIn.user, body.name)),
                           session |-> signedIn.session], calls, signedIn.w)
           ELSE Done(201, [message |-> "User registered successfully",
                           user |-> UserOf(pending.user, body.name),
                           session |-> Null,
                           requiresEmailConfirmation |-> FALSE], calls, w)

\* a rejected login is answered 400
AuthLoginRejectedAs400(req, w) ==
  LET errors == validationResult(LoginValidators, req.body)
      signedIn == signInWithPassword(w, req.body.email, req.body.password)
  IN  IF errors # <<>> THEN ValidationFailed(errors, w)
      ELSE IF signedIn.error # ""
      THEN Done(400, [error |-> signedIn.error], <<"auth.signInWithPassword">>, w)
      ELSE Done(200, [message |-> "Login successful",
                      user |-> UserOf(signedIn.user, NameOr(signedIn.user, signedIn.user.email)),
                      session |-> signedIn.session],
                <<"auth.signInWithPassword">>, signedIn.w)

\* router.post('/login')
AuthLogin(req, w) ==
  LET errors == validationResult(LoginValidators, req.body)
      signedIn == signInWithPassword(w, req.body.email, req.body.password)
  IN  IF errors # <<>> THEN ValidationFailed(errors, w)
      ELSE IF signedIn.error # ""
      THEN Done(401, [error |-> signedIn.error], <<"auth.signInWithPassword">>, w)
      ELSE Done(200, [message |-> "Login successful",
                      user |-> UserOf(signedIn.user, NameOr(signedIn.user, signedIn.user.email)),
                      session |-> signedIn.session],
                <<"auth.signInWithPassword">>, signedIn.w)

\* router.post('/logout'): the server's client holds no session to sign out
AuthLogout(req, w) ==
  Done(200, [message |-> "Logged out successfully"], <<"auth.signOut">>, w)

\* ------------------------------------------------------------------- routes
\* app.use('/api/auth', ...), app.use('/api/parents', ...), ...
RouterOf(route) ==
  CASE route \in {"POST /api/auth/register", "POST /api/auth/login",
                  "POST /api/auth/logout"} -> "auth"
    [] route \in {"GET /api/parents", "GET /api/parents/:id", "POST /api/parents",
                  "PUT /api/parents/:id", "DELETE /api/parents/:id"} -> "parents"
    [] route \in {"GET /api/appointments", "GET /api/appointments/parent/:parentId",
                  "POST /api/appointments", "PUT /api/appointments/:id",
                  "DELETE /api/appointments/:id"} -> "appointments"
    [] route \in {"GET /api/notes", "GET /api/notes/parent/:parentId",
                  "GET /api/notes/type/:type", "POST /api/notes", "PUT /api/notes/:id",
                  "DELETE /api/notes/:id"} -> "notes"
    [] OTHER -> ""

\* req.user, as the middleware sets it
Caller(req, w) == authenticateToken(req, w).user

\* A request from its arrival to its first wait or its response: the
\* router's middleware, then the route's validators and handler, whose
\* outcome for req.user is h.
Handle(req, w, h) ==
  LET auth == authenticateToken(req, w)
  IN  IF ~UsesAuthenticateToken(RouterOf(req.route))
      THEN h @@ [user |-> ""]
      ELSE IF ~auth.ok
      THEN Done(401, [error |-> auth.error], auth.calls, w) @@ [user |-> ""]
      ELSE [h EXCEPT !.calls = auth.calls \o @] @@ [user |-> auth.user]

\* --------------------------------------------------------------- entrypoint
\* A request that none of the routers' routes matches has the route "*" and
\* carries its method and its path, a sequence of segments ('/' is <<>>).
\* the files of the client's build under dist
StaticFiles == {<<"index.html">>, <<"assets", "app.js">>}
RootDocument == <<"index.html">>

\* express.static(dist): serves GET of a file, and the index of the directory
StaticFile(method, path) ==
  IF method = "GET" /\ path = <<>> THEN <<RootDocument>>
  ELSE IF method = "GET" /\ path \in StaticFiles THEN <<path>>
  ELSE <<>>

\* the router mounted on a prefix of the path, if any
MountOf(path) ==
  IF Len(path) >= 2 /\ path[1] = "api" /\ path[2] \in {"auth", "parents", "appointments", "notes"}
  THEN path[2]
  ELSE ""

\* the pattern '/api/*'
IsApiPath(path) == Len(path) >= 2 /\ path[1] = "api"

\* the catch-all precedes the 404 handler of the API
AppCatchAllFirst(req, w) ==
  IF req.method = "GET" THEN Done(200, [file |-> RootDocument], <<>>, w)
  ELSE IF IsApiPath(req.path)
  THEN Done(404, [error |-> "API endpoint not found"], <<>>, w)
  ELSE Done(404, [html |-> "Cannot " \o req.method], <<>>, w)

\* The app's stack for a request that no route of a router matches: the
\* static files, the mounted router (whose middleware runs and whose routes
\* pass), the health check, the 404 handler of the API, the catch-all, and
\* Express's own 404.
App(req, w) ==
  LET auth == authenticateToken(req, w)
      calls == IF UsesAuthenticateToken(MountOf(req.path)) THEN auth.calls ELSE <<>>
  IN  IF StaticFile(req.method, req.path) # <<>>
      THEN Done(200, [file |-> StaticFile(req.method, req.path)[1]], <<>>, w)
      ELSE IF UsesAuthenticateToken(MountOf(req.path)) /\ ~auth.ok
      THEN Done(401, [error |-> auth.error], calls, w)
      ELSE IF req.method = "GET" /\ req.path = <<"api", "health">>
      THEN Done(200, [status |-> "OK"], calls, w)
      ELSE IF IsApiPath(req.path)
      THEN Done(404, [error |-> "API endpoint not found"], calls, w)
      ELSE IF req.method = "GET"
      THEN Done(200, [file |-> RootDocument], calls, w)
      ELSE Done(404, [html |-> "Cannot " \o req.method], calls, w)

\* -------------------------------------------------------------------- state
VARIABLES
  db,         \* table name -> set of rows
  nextId,     \* table name -> the id the next inserted row gets
  accounts,   \* provider: email -> account
  sessions,   \* provider: access token -> user id, for the tokens it resolves
  nextToken,  \* provider: the next access token it issues
  confirm,    \* provider: whether a new account must confirm its email
  outage,     \* provider: whether requests to it fail at present
  reqs,       \* request slot -> the request in flight and how far it has got
  deleted,    \* history: the parents a DELETE /api/parents/:id removed, with the
              \* child rows that referenced each when it went
  client      \* the browser: React state, localStorage, timers and the calls
              \* of the client that are in flight

vars == <<db, nextId, accounts, sessions, nextToken, confirm, outage, reqs, deleted, client>>

\* no browser runs
NoClient == <<>>

MaxInflight == 2
Slots == 1..MaxInflight

World ==
  [db |-> db, nextId |-> nextId, accounts |-> accounts, sessions |-> sessions,
   nextToken |-> nextToken, confirm |-> confirm, outage |-> outage]

SetWorld(w) ==
  /\ db' = w.db
  /\ nextId' = w.nextId
  /\ accounts' = w.accounts
  /\ sessions' = w.sessions
  /\ nextToken' = w.nextToken
  /\ confirm' = w.confirm
  /\ outage' = w.outage
  /\ UNCHANGED client

Req(route, auth, id, type, body, tie) ==
  [route |-> route, auth |-> auth, id |-> id, type |-> type, body |-> body, tie |-> tie]

Idle ==
  [pc |-> "idle", req |-> Req("", {}, 0, "", EmptyBody, <<>>), user |-> "", status |-> 0,
   body |-> EmptyBody, calls |-> <<>>, pending |-> EmptyBody]

SlotOf(req, out) ==
  [pc |-> out.pc, req |-> req, user |-> out.user, status |-> out.status,
   body |-> out.body, calls |-> out.calls, pending |-> out.pending]

InFlight == {s \in Slots : reqs[s].pc # "idle"}

\* the rows inserted so far, over all tables
Inserted(w) ==
  (w.nextId["parents"] - 1) + (w.nextId["appointments"] - 1) + (w.nextId["medical_notes"] - 1)

\* the row and token pools of the model are not exhausted by the request
InBounds(route, w) ==
  /\ route \in {"POST /api/parents", "POST /api/appointments", "POST /api/notes"} =>
       Inserted(w) < MaxRows
  /\ RouterOf(route) = "auth" => w.nextToken <= MaxTokens

\* Slot s takes the next request: fewer than n are in flight, and s is the
\* first free slot.
Admits(s, n) ==
  /\ Cardinality(InFlight) < n
  /\ s \notin InFlight
  /\ \A t \in Slots : t < s => t \in InFlight

\* The request of slot s waits for a call of the given route's handler.
Waiting(s, route) ==
  /\ reqs[s].pc \notin {"idle", "done"}
  /\ reqs[s].req.route = route

\* A request arrives and runs to its first wait or to its response.
Begin(s, req, h) ==
  /\ InBounds(req.route, World)
  /\ LET out == Handle(req, World, h)
     IN  /\ reqs' = [reqs EXCEPT ![s] = SlotOf(req, out)]
         /\ SetWorld(out.w)
  /\ UNCHANGED deleted

\* the rows of the child tables that reference the parent, as <<table, id>>
Referencing(d, parent) ==
  UNION {{<<c, r.id>> : r \in {x \in d[c] : x.parent_id = parent}} : c \in ChildTables}

\* The call a request waits for completes and the handler runs to its
\* response, h.
Resume(s, h) ==
  /\ InBounds(reqs[s].req.route, World)
  /\ LET out == h @@ [user |-> reqs[s].user]
     IN  /\ reqs' = [reqs EXCEPT ![s] = SlotOf(reqs[s].req, out)]
         /\ SetWorld(out.w)
         /\ deleted' = IF reqs[s].req.route = "DELETE /api/parents/:id" /\ out.status = 200
                       THEN deleted \cup {[id |-> reqs[s].req.id,
                                            children |-> Referencing(db, reqs[s].req.id)]}
                       ELSE deleted

\* The response is sent; the slot is free again.
Respond(s) ==
  /\ reqs[s].pc = "done"
  /\ reqs' = [reqs EXCEPT ![s] = Idle]
  /\ UNCHANGED <<db, nextId, accounts, sessions, nextToken, confirm, outage, deleted, client>>

\* ------------------------------------------------------------------- inputs
AuthHeaders == {{}} \cup {{t} : t \in 1..MaxTokens}
\* A request whose token does not resolve is drawn with one body and one id: the
\* middleware reads the Authorization header only.
Resolves(a) == a # {} /\ a \subseteq DOMAIN sessions
For(a, inputs) == IF Resolves(a) THEN inputs ELSE {CHOOSE i \in inputs : TRUE}
\* the ids a request names: the ids issued so far and one that never was (ids
\* never issued are all alike to the handlers)
Ids(table) == 1..nextId[table]
ParentIds == Ids("parents")
\* the provider's orders of the rows of a table whose sort keys are equal
TieOrders(table) == Permutations(1..(nextId[table] - 1))

Mom == <<"M", "o", "m">>
Blank == <<" ">>
Day1 == <<"2024-01-15">>
Day1Noon == <<"2024-01-15", "T10:30:00Z">>
NotADate == <<"15/01/2024">>
HalfPastNine == <<"0", "9", ":", "3", "0">>
NineThirty == <<"9", ":", "3", "0">>
TwentyFiveSixtyOne == <<"2", "5", ":", "6", "1">>
Text == <<"x">>

ParentsPostBodies ==
  {[name |-> Mom, relationship |-> "mom"],
   [name |-> Mom, birth_date |-> Day1, relationship |-> "mom",
    personality |-> <<>>, interests |-> <<>>, challenges |-> <<>>,
    relationship_goals |-> <<>>],
   [name |-> Blank \o Mom, relationship |-> "mom"],
   [relationship |-> "mom"],
   [name |-> Blank, relationship |-> "aunt"],
   [name |-> Mom, relationship |-> "mom", user_id |-> "B", id |-> 2]}
  \cup {[name |-> Mom, age |-> <<a>>, relationship |-> "mom"] :
          a \in {AgeMin - 1, AgeMin, AgeMax, AgeMax + 1}}

ParentsPutBodies ==
  {EmptyBody, [user_id |-> "B", id |-> 1], [name |-> Blank],
   [age |-> <<AgeMin>>, user_id |-> "B", id |-> 2]}
  \cup {[age |-> <<a>>] : a \in {AgeMin - 1, AgeMin, AgeMax, AgeMax + 1}}

AppointmentOf(parent, date, time) ==
  [parent_id |-> parent, date |-> date, time |-> time, doctor |-> Text,
   specialty |-> Text, location |-> Text, reason |-> Text]

AppointmentsPostBodies ==
  {AppointmentOf(p, Day1, HalfPastNine) : p \in ParentIds}
  \cup {AppointmentOf(p, Day1Noon, NineThirty) : p \in ParentIds}
  \cup {AppointmentOf(1, Day1, TwentyFiveSixtyOne),
        AppointmentOf(1, NotADate, HalfPastNine),
        [date |-> Day1, time |-> HalfPastNine, doctor |-> Blank]}

AppointmentsPutBodies ==
  {EmptyBody, [parent_id |-> 2, id |-> 2], [completed |-> TRUE], [completed |-> FALSE],
   [time |-> NineThirty], [time |-> TwentyFiveSixtyOne],
   [completed |-> TRUE, parent_id |-> 2, id |-> 2]}

NoteOf(parent, type) ==
  [parent_id |-> parent, date |-> Day1, type |-> type, title |-> Text, content |-> Text]

NotesPostBodies ==
  {NoteOf(p, "general") : p \in ParentIds}
  \cup {NoteOf(1, "diary"), [parent_id |-> 0, date |-> Day1, type |-> "general"]}

NotesPutBodies ==
  {EmptyBody, [parent_id |-> 2], [type |-> "symptom"], [title |-> Blank],
   [type |-> "symptom", parent_id |-> 2, id |-> 2]}

NoteTypeParams == {"general", "diary"}

Secret1 == <<"s", "e", "c", "r", "e", "t", "1">>
Secret2 == <<"s", "e", "c", "r", "e", "t", "2">>
TooShort == <<"a", "b", "c">>
NameA == <<"A">>

RegisterBodies ==
  {[email |-> e, password |-> Secret1, name |-> NameA] : e \in {EmailA, EmailB}}
  \cup {[email |-> EmailA, password |-> Secret2, name |-> NameA],
        [email |-> EmailA, password |-> TooShort, name |-> Blank],
        [email |-> <<"a", "b">>, password |-> Secret1, name |-> NameA]}

LoginBodies ==
  {[email |-> e, password |-> p] : e \in {EmailA, EmailB}, p \in {Secret1, Secret2}}
  \cup {[email |-> EmailA], [email |-> <<"a", "b">>, password |-> Secret1]}

\* ------------------------------------------------------------------ actions
\* One action per route (the request arrives and its handler runs to its first
\* wait or its response) and one per wait of a handler.
GetParents(s, n) ==
  /\ Admits(s, n)
  /\ \E a \in AuthHeaders :
       LET req == Req("GET /api/parents", a, 0, "", EmptyBody, <<>>)
       IN  Begin(s, req, ParentsGetList(req, Caller(req, World), World))

GetParent(s, n) ==
  /\ Admits(s, n)
  /\ \E a \in AuthHeaders :
       \E id \in For(a, ParentIds) :
         LET req == Req("GET /api/parents/:id", a, id, "", EmptyBody, <<>>)
         IN  Begin(s, req, ParentsGetById(req, Caller(req, World), World))

PostParent(s, n) ==
  /\ Admits(s, n)
  /\ \E a \in AuthHeaders :
       \E b \in For(a, ParentsPostBodies) :
         LET req == Req("POST /api/parents", a, 0, "", b, <<>>)
         IN  Begin(s, req, ParentsPost(req, Caller(req, World), World))

PutParent(s, n) ==
  /\ Admits(s, n)
  /\ \E a \in AuthHeaders :
       \E id \in For(a, ParentIds), b \in For(a, ParentsPutBodies) :
         LET req == Req("PUT /api/parents/:id", a, id, "", b, <<>>)
         IN  Begin(s, req, ParentsPut(req, Caller(req, World), World))

PutParentUpdated(s) ==
  /\ Waiting(s, "PUT /api/parents/:id")
  /\ Resume(s, ParentsPutUpdated(reqs[s].req, reqs[s].user, reqs[s].pending, reqs[s].calls, World))

DeleteParent(s, n) ==
  /\ Admits(s, n)
  /\ \E a \in AuthHeaders :
       \E id \in For(a, ParentIds) :
         LET req == Req("DELETE /api/parents/:id", a, id, "", EmptyBody, <<>>)
         IN  Begin(s, req, ParentsDelete(req, Caller(req, World), World))

DeleteParentDeleted(s) ==
  /\ Waiting(s, "DELETE /api/parents/:id")
  /\ Resume(s, ParentsDeleted(reqs[s].req, reqs[s].user, reqs[s].pending, reqs[s].calls, World))

GetAppointments(s, n) ==
  /\ Admits(s, n)
  /\ \E a \in AuthHeaders :
       \E tie \in TieOrders("appointments") :
         LET req == Req("GET /api/appointments", a, 0, "", EmptyBody, tie)
         IN  Begin(s, req, ChildGetList(Router("appointments"), req, Caller(req, World), World))

GetAppointmentsSelected(s) ==
  /\ Waiting(s, "GET /api/appointments")
  /\ Resume(s, ChildGetListSelected(Router("appointments"), reqs[s].req, reqs[s].user, reqs[s].pending, reqs[s].calls, World))

GetParentAppointments(s, n) ==
  /\ Admits(s, n)
  /\ \E a \in AuthHeaders :
       \E id \in For(a, ParentIds), tie \in TieOrders("appointments") :
         LET req == Req("GET /api/appointments/parent/:parentId", a, id, "", EmptyBody, tie)
         IN  Begin(s, req, ChildGetByParent(Router("appointments"), req, Caller(req, World), World))

GetParentAppointmentsSelected(s) ==
  /\ Waiting(s, "GET /api/appointments/parent/:parentId")
  /\ Resume(s, ChildGetByParentSelected(Router("appointments"), reqs[s].req, reqs[s].user, reqs[s].pending, reqs[s].calls, World))

PostAppointment(s, n) ==
  /\ Admits(s, n)
  /\ \E a \in AuthHeaders :
       \E b \in For(a, AppointmentsPostBodies) :
         LET req == Req("POST /api/appointments", a, 0, "", b, <<>>)
         IN  Begin(s, req, ChildPost(Router("appointments"), req, Caller(req, World), World))

PostAppointmentInserted(s) ==
  /\ Waiting(s, "POST /api/appointments")
  /\ Resume(s, ChildPostInserted(Router("appointments"), reqs[s].req, reqs[s].user, reqs[s].pending, reqs[s].calls, World))

PutAppointment(s, n) ==
  /\ Admits(s, n)
  /\ \E a \in AuthHeaders :
       \E id \in For(a, Ids("appointments")), b \in For(a, AppointmentsPutBodies) :
         LET req == Req("PUT /api/appointments/:id", a, id, "", b, <<>>)
         IN  Begin(s, req, ChildPut(Router("appointments"), req, Caller(req, World), World))

PutAppointmentUpdated(s) ==
  /\ Waiting(s, "PUT /api/appointments/:id")
  /\ Resume(s, ChildPutUpdated(Router("appointments"), reqs[s].req, reqs[s].user, reqs[s].pending, reqs[s].calls, World))

DeleteAppointment(s, n) ==
  /\ Admits(s, n)
  /\ \E a \in AuthHeaders :
       \E id \in For(a, Ids("appointments")) :
         LET req == Req("DELETE /api/appointments/:id", a, id, "", EmptyBody, <<>>)
         IN  Begin(s, req, ChildDelete(Router("appointments"), req, Caller(req, World), World))

DeleteAppointmentDeleted(s) ==
  /\ Waiting(s, "DELETE /api/appointments/:id")
  /\ Resume(s, ChildDeleted(Router("appointments"), reqs[s].req, reqs[s].user, reqs[s].pending, reqs[s].calls, World))

GetNotes(s, n) ==
  /\ Admits(s, n)
  /\ \E a \in AuthHeaders :
       \E tie \in TieOrders("medical_notes") :
         LET req == Req("GET /api/notes", a, 0, "", EmptyBody, tie)
         IN  Begin(s, req, ChildGetList(Router("medical_notes"), req, Caller(req, World), World))

GetNotesSelected(s) ==
  /\ Waiting(s, "GET /api/notes")
  /\ Resume(s, ChildGetListSelected(Router("medical_notes"), reqs[s].req, reqs[s].user, reqs[s].pending, reqs[s].calls, World))

GetParentNotes(s, n) ==
  /\ Admits(s, n)
  /\ \E a \in AuthHeaders :
       \E id \in For(a, ParentIds), tie \in TieOrders("medical_notes") :
         LET req == Req("GET /api/notes/parent/:parentId", a, id, "", EmptyBody, tie)
         IN  Begin(s, req, ChildGetByParent(Router("medical_notes"), req, Caller(req, World), World))

GetParentNotesSelected(s) ==
  /\ Waiting(s, "GET /api/notes/parent/:parentId")
  /\ Resume(s, ChildGetByParentSelected(Router("medical_notes"), reqs[s].req, reqs[s].user, reqs[s].pending, reqs[s].calls, World))

GetNotesOfType(s, n) ==
  /\ Admits(s, n)
  /\ \E a \in AuthHeaders :
       \E type \in For(a, NoteTypeParams), tie \in TieOrders("medical_notes") :
         LET req == Req("GET /api/notes/type/:type", a, 0, type, EmptyBody, tie)
         IN  Begin(s, req, ChildGetList(Router("medical_notes"), req, Caller(req, World), World))

GetNotesOfTypeSelected(s) ==
  /\ Waiting(s, "GET /api/notes/type/:type")
  /\ Resume(s, ChildGetListSelected(Router("medical_notes"), reqs[s].req, reqs[s].user, reqs[s].pending, reqs[s].calls, World))

PostNote(s, n) ==
  /\ Admits(s, n)
  /\ \E a \in AuthHeaders :
       \E b \in For(a, NotesPostBodies) :
         LET req == Req("POST /api/notes", a, 0, "", b, <<>>)
         IN  Begin(s, req, ChildPost(Router("medical_notes"), req, Caller(req, World), World))

PostNoteInserted(s) ==
  /\ Waiting(s, "POST /api/notes")
  /\ Resume(s, ChildPostInserted(Router("medical_notes"), reqs[s].req, reqs[s].user, reqs[s].pending, reqs[s].calls, World))

PutNote(s, n) ==
  /\ Admits(s, n)
  /\ \E a \in AuthHeaders :
       \E id \in For(a, Ids("medical_notes")), b \in For(a, NotesPutBodies) :
         LET req == Req("PUT /api/notes/:id", a, id, "", b, <<>>)
         IN  Begin(s, req, ChildPut(Router("medical_notes"), req, Caller(req, World), World))

PutNoteUpdated(s) ==
  /\ Waiting(s, "PUT /api/notes/:id")
  /\ Resume(s, ChildPutUpdated(Router("medical_notes"), reqs[s].req, reqs[s].user, reqs[s].pending, reqs[s].calls, World))

DeleteNote(s, n) ==
  /\ Admits(s, n)
  /\ \E a \in AuthHeaders :
       \E id \in For(a, Ids("medical_notes")) :
         LET req == Req("DELETE /api/notes/:id", a, id, "", EmptyBody, <<>>)
         IN  Begin(s, req, ChildDelete(Router("medical_notes"), req, Caller(req, World), World))

DeleteNoteDeleted(s) ==
  /\ Waiting(s, "DELETE /api/notes/:id")
  /\ Resume(s, ChildDeleted(Router("medical_notes"), reqs[s].req, reqs[s].user, reqs[s].pending, reqs[s].calls, World))

Register(s, n) ==
  /\ Admits(s, n)
  /\ \E b \in RegisterBodies :
       LET req == Req("POST /api/auth/register", {}, 0, "", b, <<>>)
       IN  Begin(s, req, AuthRegister(req, World))

RegisterSignedIn(s) ==
  /\ Waiting(s, "POST /api/auth/register")
  /\ Resume(s, AuthRegisterSignedIn(reqs[s].req, reqs[s].pending, reqs[s].calls, World))

Login(s, n) ==
  /\ Admits(s, n)
  /\ \E b \in LoginBodies :
       LET req == Req("POST /api/auth/login", {}, 0, "", b, <<>>)
       IN  Begin(s, req, AuthLogin(req, World))

Logout(s, n) ==
  /\ Admits(s, n)
  /\ \E a \in AuthHeaders :
       LET req == Req("POST /api/auth/logout", a, 0, "", EmptyBody, <<>>)
       IN  Begin(s, req, AuthLogout(req, World))

\* the paths of the model that no route of a router matches, whatever the method
OtherPaths ==
  {<<>>, <<"assets", "app.js">>, <<"dashboard">>, <<"api", "health">>, <<"api", "nothing">>,
   <<"api", "auth", "nothing">>, <<"api", "parents", "1", "x">>}

Other(s, n) ==
  /\ Admits(s, n)
  /\ \E a \in AuthHeaders, method \in {"GET", "POST"}, path \in OtherPaths :
       LET req == Req("*", a, 0, "", EmptyBody, <<>>) @@ [method |-> method, path |-> path]
       IN  Begin(s, req, App(req, World))

\* the provider's side: the user follows the confirmation link
ConfirmEmail ==
  /\ \E e \in DOMAIN accounts :
       /\ ~accounts[e].confirmed
       /\ accounts' = [accounts EXCEPT ![e].confirmed = TRUE]
  /\ UNCHANGED <<db, nextId, sessions, nextToken, confirm, outage, reqs, deleted, client>>

\* the provider's side: a token expires or is revoked
ExpireToken ==
  /\ \E t \in DOMAIN sessions :
       sessions' = [u \in DOMAIN sessions \ {t} |-> sessions[u]]
  /\ UNCHANGED <<db, nextId, accounts, nextToken, confirm, outage, reqs, deleted, client>>

\* the provider's side: requests to the provider start or stop failing
ProviderOutage ==
  /\ outage' = ~outage
  /\ UNCHANGED <<db, nextId, accounts, sessions, nextToken, confirm, reqs, deleted, client>>

\* ----------------------------------------------------------- specifications
NoRows == [t \in Tables |-> {}]
FirstIds == [t \in Tables |-> 1]

AccountOf(email) ==
  [password |-> Secret1,
   user |-> [id |-> UserIdOf(email), email |-> email, user_metadata |-> [name |-> NameA]],
   confirmed |-> TRUE]

\* Two users are registered and logged in: token 1 is A's, token 2 is B's.
Init ==
  /\ db = NoRows
  /\ nextId = FirstIds
  /\ accounts = (EmailA :> AccountOf(EmailA)) @@ (EmailB :> AccountOf(EmailB))
  /\ sessions = (1 :> "A") @@ (2 :> "B")
  /\ nextToken = 3
  /\ confirm = FALSE
  /\ outage = FALSE
  /\ reqs = [s \in Slots |-> Idle]
  /\ deleted = {}
  /\ client = NoClient

\* The resource routers, one request at a time, and the provider's side.
Next ==
  \/ \E s \in Slots :
       \/ GetParents(s, 1)
       \/ GetParent(s, 1)
       \/ PostParent(s, 1)
       \/ PutParent(s, 1)
       \/ PutParentUpdated(s)
       \/ DeleteParent(s, 1)
       \/ DeleteParentDeleted(s)
       \/ GetAppointments(s, 1)
       \/ GetAppointmentsSelected(s)
       \/ GetParentAppointments(s, 1)
       \/ GetParentAppointmentsSelected(s)
       \/ PostAppointment(s, 1)
       \/ PostAppointmentInserted(s)
       \/ PutAppointment(s, 1)
       \/ PutAppointmentUpdated(s)
       \/ DeleteAppointment(s, 1)
       \/ DeleteAppointmentDeleted(s)
       \/ GetNotes(s, 1)
       \/ GetNotesSelected(s)
       \/ GetParentNotes(s, 1)
       \/ GetParentNotesSelected(s)
       \/ GetNotesOfType(s, 1)
       \/ GetNotesOfTypeSelected(s)
       \/ PostNote(s, 1)
       \/ PostNoteInserted(s)
       \/ PutNote(s, 1)
       \/ PutNoteUpdated(s)
       \/ DeleteNote(s, 1)
       \/ DeleteNoteDeleted(s)
       \/ Respond(s)
  \/ ExpireToken

Spec == Init /\ [][Next]_vars

\* Nobody is registered; the provider may or may not require new accounts to
\* confirm their email.
InitAuth ==
  /\ db = NoRows
  /\ nextId = FirstIds
  /\ accounts = <<>>
  /\ sessions = <<>>
  /\ nextToken = 1
  /\ confirm \in BOOLEAN
  /\ outage = FALSE
  /\ reqs = [s \in Slots |-> Idle]
  /\ deleted = {}
  /\ client = NoClient

\* The auth router, the provider's side and the parents list, one request at a
\* time.
NextAuth ==
  \/ \E s \in Slots :
       \/ Register(s, 1)
       \/ RegisterSignedIn(s)
       \/ Login(s, 1)
       \/ Logout(s, 1)
       \/ GetParents(s, 1)
       \/ PostParent(s, 1)
       \/ Respond(s)
  \/ ConfirmEmail

SpecAuth == InitAuth /\ [][NextAuth]_vars

\* The auth router, the requests that no router's route matches and the
\* provider's side, outages included, one request at a time.
NextOutage ==
  \/ \E s \in Slots :
       \/ Register(s, 1)
       \/ RegisterSignedIn(s)
       \/ Login(s, 1)
       \/ Logout(s, 1)
       \/ Other(s, 1)
       \/ Respond(s)
  \/ ConfirmEmail
  \/ ProviderOutage

SpecOutage == InitAuth /\ [][NextOutage]_vars

\* The creates, the update and delete of an appointment and the delete of a
\* parent, with up to MaxInflight requests in flight: a request may arrive, and
\* a call may complete, while another request waits for its call.
NextRace ==
  \E s \in Slots :
    \/ PostParent(s, MaxInflight)
    \/ DeleteParent(s, MaxInflight)
    \/ DeleteParentDeleted(s)
    \/ PostAppointment(s, MaxInflight)
    \/ PostAppointmentInserted(s)
    \/ PutAppointment(s, MaxInflight)
    \/ PutAppointmentUpdated(s)
    \/ DeleteAppointment(s, MaxInflight)
    \/ DeleteAppointmentDeleted(s)
    \/ PostNote(s, MaxInflight)
    \/ PostNoteInserted(s)
    \/ Respond(s)

SpecRace == Init /\ [][NextRace]_vars

\* The list routes over tables that hold several rows of each user: the state
\* after A created parent 1 and B parent 2, A three appointments (two on one
\* day) and two notes, B one appointment and one note.
Day2 == <<"2024-03-01">>

ParentCreated(w, user, body) ==
  ParentsPost(Req("POST /api/parents", {}, 0, "", body, <<>>), user, w).w

ChildCreated(w, table, user, body) ==
  LET r == Router(table)
      req == Req(IF table = "appointments" THEN "POST /api/appointments" ELSE "POST /api/notes",
                 {}, 0, "", body, <<>>)
      first == ChildPost(r, req, user, w)
  IN  ChildPostInserted(r, req, user, first.pending, first.calls, first.w).w

ListedWorld ==
  LET w0 == [db |-> NoRows, nextId |-> FirstIds]
      w1 == ParentCreated(w0, "A", [name |-> Mom, relationship |-> "mom"])
      w2 == ParentCreated(w1, "B", [name |-> Mom, relationship |-> "mom"])
      w3 == ChildCreated(w2, "appointments", "A", AppointmentOf(1, Day1, HalfPastNine))
      w4 == ChildCreated(w3, "appointments", "A", AppointmentOf(1, Day2, HalfPastNine))
      w5 == ChildCreated(w4, "appointments", "A", AppointmentOf(1, Day1Noon, NineThirty))
      w6 == ChildCreated(w5, "appointments", "B", AppointmentOf(2, Day2, HalfPastNine))
      w7 == ChildCreated(w6, "medical_notes", "A", NoteOf(1, "general"))
      w8 == ChildCreated(w7, "medical_notes", "A", [NoteOf(1, "general") EXCEPT !.date = Day2])
  IN  ChildCreated(w8, "medical_notes", "B", NoteOf(2, "general"))

InitList ==
  /\ db = ListedWorld.db
  /\ nextId = ListedWorld.nextId
  /\ accounts = (EmailA :> AccountOf(EmailA)) @@ (EmailB :> AccountOf(EmailB))
  /\ sessions = (1 :> "A") @@ (2 :> "B")
  /\ nextToken = 3
  /\ confirm = FALSE
  /\ outage = FALSE
  /\ reqs = [s \in Slots |-> Idle]
  /\ deleted = {}
  /\ client = NoClient

\* The list routes, one request at a time, among updates of notes and deletes
\* of rows and parents.
NextList ==
  \E s \in Slots :
    \/ GetAppointments(s, 1)
    \/ GetAppointmentsSelected(s)
    \/ GetNotes(s, 1)
    \/ GetNotesSelected(s)
    \/ GetNotesOfType(s, 1)
    \/ GetNotesOfTypeSelected(s)
    \/ PutNote(s, 1)
    \/ PutNoteUpdated(s)
    \/ DeleteAppointment(s, 1)
    \/ DeleteAppointmentDeleted(s)
    \/ DeleteNote(s, 1)
    \/ DeleteNoteDeleted(s)
    \/ DeleteParent(s, 1)
    \/ DeleteParentDeleted(s)
    \/ Respond(s)

SpecList == InitList /\ [][NextList]_vars

\* ================================================================ the client
\* src/App.tsx. The variable client holds the React state of App, the
\* browser's localStorage and the async functions that are waiting for a
\* response; the server is what answers them, in any of the ways it can. A
\* function runs from one await to the next in one step. The forms, the
\* error text and the lists' contents are left out: a list is the sequence
\* of its ids.
MaxCalls == 2

\* null, and an item localStorage does not hold
None == ""

ServerVars == <<db, nextId, accounts, sessions, nextToken, confirm, outage, reqs, deleted>>

Screens == {"login", "register", "onboarding", "dashboard", "conversations", "memories", "medical"}

\* a function waiting at an await, with the token it holds in a local
Call(fn, at, token) == [fn |-> fn, at |-> at, token |-> token]

\* the functions started without await: they run if the browser lets them
Started(calls, new) == IF Cardinality(calls \cup new) <= MaxCalls THEN calls \cup new ELSE calls

\* useState(...) of App, empty or stored localStorage, nothing in flight
AppState(storage) ==
  [currentScreen |-> "login", user |-> None, parents |-> <<>>, appointments |-> <<>>,
   medicalNotes |-> <<>>, loading |-> FALSE, storage |-> storage, mounted |-> FALSE,
   calls |-> {}]

NoStorage == [token |-> None, user |-> None]

\* what the server may answer
AuthResponses ==
  {[kind |-> "network"], [kind |-> "error"],
   [kind |-> "ok", session |-> None, user |-> "A", requiresEmailConfirmation |-> FALSE],
   [kind |-> "ok", session |-> None, user |-> "A", requiresEmailConfirmation |-> TRUE],
   [kind |-> "ok", session |-> "t1", user |-> "A", requiresEmailConfirmation |-> FALSE]}

ListResponses(id) == {[ok |-> FALSE], [ok |-> TRUE, list |-> <<>>], [ok |-> TRUE, list |-> <<id>>]}

PostResponses == {"network", "error", "ok"}

\* the parents were fetched: onboarding without parents, else the dashboard
\* and the two fetches
ShowParents(c, rest, token, list) ==
  IF list = <<>>
  THEN [c EXCEPT !.currentScreen = "onboarding", !.calls = rest]
  ELSE [c EXCEPT !.currentScreen = "dashboard", !.parents = list,
                 !.calls = Started(rest, {Call("fetchAppointments", "fetch", token),
                                          Call("fetchMedicalNotes", "fetch", token)})]

\* initializeAuth, up to fetchParents
initializeAuth(c) ==
  IF c.storage.token # None /\ c.storage.user # None
  THEN [c EXCEPT !.mounted = TRUE, !.user = c.storage.user,
                 !.calls = @ \cup {Call("initializeAuth", "fetchParents", c.storage.token)}]
  ELSE [c EXCEPT !.mounted = TRUE, !.currentScreen = "login"]

\* initializeAuth, from fetchParents on
initializeAuthFetched(c, call, r) ==
  IF ~r.ok
  THEN [c EXCEPT !.storage = NoStorage, !.user = None, !.currentScreen = "login",
                 !.calls = @ \ {call}]
  ELSE ShowParents(c, c.calls \ {call}, call.token, r.list)

\* handleLogin, up to the fetch of /api/auth/login
handleLogin(c) ==
  [c EXCEPT !.loading = TRUE, !.calls = @ \cup {Call("handleLogin", "login", None)}]

\* handleLogin, from the response to fetchParents
handleLoginResponded(c, call, r) ==
  IF r.kind = "ok" /\ r.session # None
  THEN [c EXCEPT !.storage = [token |-> r.session, user |-> r.user], !.user = r.user,
                 !.calls = (@ \ {call}) \cup {Call("handleLogin", "fetchParents", r.session)}]
  ELSE [c EXCEPT !.loading = FALSE, !.calls = @ \ {call}]

\* handleLogin, from fetchParents on
handleLoginFetched(c, call, r) ==
  IF ~r.ok
  THEN [c EXCEPT !.loading = FALSE, !.calls = @ \ {call}]
  ELSE [ShowParents(c, c.calls \ {call}, call.token, r.list) EXCEPT !.loading = FALSE]

\* handleRegister, up to the fetch of /api/auth/register
handleRegister(c) ==
  [c EXCEPT !.loading = TRUE, !.calls = @ \cup {Call("handleRegister", "register", None)}]

\* handleRegister, from the response on
handleRegisterResponded(c, call, r) ==
  IF r.kind = "ok" /\ ~r.requiresEmailConfirmation /\ r.session # None
  THEN [c EXCEPT !.storage = [token |-> r.session, user |-> r.user], !.user = r.user,
                 !.currentScreen = "onboarding", !.loading = FALSE, !.calls = @ \ {call}]
  ELSE [c EXCEPT !.loading = FALSE, !.calls = @ \ {call}]

\* handleCreateParent, up to the fetch of POST /api/parents
handleCreateParent(c) ==
  IF c.storage.token = None
  THEN c
  ELSE [c EXCEPT !.loading = TRUE,
                 !.calls = @ \cup {Call("handleCreateParent", "post", c.storage.token)}]

\* handleCreateParent, from the response to fetchParents
handleCreateParentPosted(c, call, r) ==
  IF r = "ok"
  THEN [c EXCEPT !.calls = (@ \ {call}) \cup {Call("handleCreateParent", "fetchParents", call.token)}]
  ELSE [c EXCEPT !.loading = FALSE, !.calls = @ \ {call}]

\* handleCreateParent, from fetchParents on
handleCreateParentFetched(c, call, r) ==
  IF ~r.ok
  THEN [c EXCEPT !.loading = FALSE, !.calls = @ \ {call}]
  ELSE [c EXCEPT !.parents = r.list, !.currentScreen = "dashboard", !.loading = FALSE,
                 !.calls = Started(c.calls \ {call},
                                   {Call("fetchAppointments", "fetch", call.token),
                                    Call("fetchMedicalNotes", "fetch", call.token)})]

\* fetchAppointments and fetchMedicalNotes, from the response on
fetchAppointments(c, call, r) ==
  IF r.ok THEN [c EXCEPT !.appointments = r.list, !.calls = @ \ {call}]
  ELSE [c EXCEPT !.calls = @ \ {call}]

fetchMedicalNotes(c, call, r) ==
  IF r.ok THEN [c EXCEPT !.medicalNotes = r.list, !.calls = @ \ {call}]
  ELSE [c EXCEPT !.calls = @ \ {call}]

handleLogout(c) ==
  [c EXCEPT !.storage = NoStorage, !.user = None, !.parents = <<>>, !.appointments = <<>>,
            !.medicalNotes = <<>>, !.currentScreen = "login"]

handleDemoMode(c) ==
  [c EXCEPT !.user = "demo-user-123", !.parents = <<"demo-parent-1", "demo-parent-2">>,
            !.appointments = <<"demo-apt-1", "demo-apt-2">>,
            !.medicalNotes = <<"demo-note-1", "demo-note-2", "demo-note-3">>,
            !.currentScreen = "dashboard"]

\* the buttons that call setCurrentScreen, by the screen that shows them
ScreenButtons(screen) ==
  CASE screen = "login" -> {"register"}
    [] screen = "register" -> {"login"}
    [] screen = "dashboard" -> {"dashboard", "medical", "conversations", "memories", "onboarding"}
    [] screen \in {"medical", "conversations", "memories"} ->
         {"dashboard", "medical", "conversations", "memories"}
    [] OTHER -> {}

\* ---- the steps of the browser
Waits(fn, at) == {call \in client.calls : call.fn = fn /\ call.at = at}

ClientStep(c) == client' = c /\ UNCHANGED ServerVars

Mount == ~client.mounted /\ ClientStep(initializeAuth(client))

Restored ==
  \E call \in Waits("initializeAuth", "fetchParents"), r \in ListResponses("p1") :
    ClientStep(initializeAuthFetched(client, call, r))

SubmitLogin ==
  /\ client.mounted /\ client.currentScreen = "login" /\ ~client.loading
  /\ Cardinality(client.calls) < MaxCalls
  /\ ClientStep(handleLogin(client))

LoginResponded ==
  \E call \in Waits("handleLogin", "login"), r \in AuthResponses :
    ClientStep(handleLoginResponded(client, call, r))

LoginFetched ==
  \E call \in Waits("handleLogin", "fetchParents"), r \in ListResponses("p1") :
    ClientStep(handleLoginFetched(client, call, r))

SubmitRegister ==
  /\ client.mounted /\ client.currentScreen = "register" /\ ~client.loading
  /\ Cardinality(client.calls) < MaxCalls
  /\ ClientStep(handleRegister(client))

RegisterResponded ==
  \E call \in Waits("handleRegister", "register"), r \in AuthResponses :
    ClientStep(handleRegisterResponded(client, call, r))

SubmitParent ==
  /\ client.mounted /\ client.currentScreen = "onboarding" /\ ~client.loading
  /\ Cardinality(client.calls) < MaxCalls
  /\ ClientStep(handleCreateParent(client))

ParentPosted ==
  \E call \in Waits("handleCreateParent", "post"), r \in PostResponses :
    ClientStep(handleCreateParentPosted(client, call, r))

ParentFetched ==
  \E call \in Waits("handleCreateParent", "fetchParents"), r \in ListResponses("p1") :
    ClientStep(handleCreateParentFetched(client, call, r))

AppointmentsFetched ==
  \E call \in Waits("fetchAppointments", "fetch"), r \in ListResponses("a1") :
    ClientStep(fetchAppointments(client, call, r))

MedicalNotesFetched ==
  \E call \in Waits("fetchMedicalNotes", "fetch"), r \in ListResponses("n1") :
    ClientStep(fetchMedicalNotes(client, call, r))

\* 'Sign Out' is on the onboarding screen and on the dashboard
ClickLogout ==
  /\ client.mounted /\ client.currentScreen \in {"onboarding", "dashboard"}
  /\ ClientStep(handleLogout(client))

ClickDemoMode ==
  /\ client.mounted /\ client.currentScreen = "login"
  /\ ClientStep(handleDemoMode(client))

ClickScreen ==
  /\ client.mounted
  /\ \E screen \in ScreenButtons(client.currentScreen) :
       ClientStep([client EXCEPT !.currentScreen = screen])

\* The page is loaded in a browser that holds no session, or the session of an
\* earlier visit.
InitClient ==
  /\ db = NoRows
  /\ nextId = FirstIds
  /\ accounts = <<>>
  /\ sessions = <<>>
  /\ nextToken = 1
  /\ confirm = FALSE
  /\ outage = FALSE
  /\ reqs = [s \in Slots |-> Idle]
  /\ deleted = {}
  /\ client \in {AppState(NoStorage), AppState([token |-> "t0", user |-> "A"])}

NextClient ==
  \/ Mount
  \/ Restored
  \/ SubmitLogin
  \/ LoginResponded
  \/ LoginFetched
  \/ SubmitRegister
  \/ RegisterResponded
  \/ SubmitParent
  \/ ParentPosted
  \/ ParentFetched
  \/ AppointmentsFetched
  \/ MedicalNotesFetched
  \/ ClickLogout
  \/ ClickDemoMode
  \/ ClickScreen

SpecClient == InitClient /\ [][NextClient]_vars

\* ------------------------------------------ the client with persistent demo
\* The later App.tsx (part_007): demo mode lives in localStorage (isDemoMode,
\* demoData), and the client calls the provider itself to log in and register.
\* The record is that of AppState with more items in storage, the counter
\* behind Date.now() and whether the provider is configured. A parent made in
\* demo mode has the clock's value as its id, a parent of the server the id 0;
\* MaxParents bounds the parents made in demo mode.
MaxParents == 2

DemoUser == "demo-user"
DemoUsers == {"demo-user", "demo-registered"}

NoDemoData == [user |-> None, parents |-> <<>>, appointments |-> <<>>, medicalNotes |-> <<>>]

NoStorage7 == [token |-> None, user |-> None, isDemoMode |-> FALSE, demoData |-> NoDemoData]

AppState7(configured) ==
  [currentScreen |-> "login", user |-> None, parents |-> <<>>, appointments |-> <<>>,
   medicalNotes |-> <<>>, loading |-> FALSE, storage |-> NoStorage7, calls |-> {},
   now |-> 1, configured |-> configured]

\* what signInWithPassword and signUp may return
ProviderResponses == {[error |-> TRUE, session |-> None], [error |-> FALSE, session |-> None],
                      [error |-> FALSE, session |-> "t1"]}

\* useEffect(..., [user, parents, appointments, medicalNotes]): the demo
\* auto-save, run after a step that changed one of the four
AutoSaved(before, after) ==
  IF /\ <<after.user, after.parents, after.appointments, after.medicalNotes>> #
          <<before.user, before.parents, before.appointments, before.medicalNotes>>
     /\ after.storage.isDemoMode
     /\ after.user # None
  THEN [after EXCEPT !.storage.demoData =
          [user |-> after.user, parents |-> after.parents,
           appointments |-> after.appointments, medicalNotes |-> after.medicalNotes]]
  ELSE after

handleDemoMode7(c) ==
  LET data == c.storage.demoData
  IN  IF data.user # None
      THEN [c EXCEPT !.user = data.user, !.parents = data.parents,
                     !.appointments = data.appointments, !.medicalNotes = data.medicalNotes,
                     !.currentScreen = IF data.parents # <<>> THEN "dashboard" ELSE "onboarding",
                     !.storage.isDemoMode = TRUE]
      ELSE [c EXCEPT !.storage.demoData = [NoDemoData EXCEPT !.user = DemoUser],
                     !.storage.isDemoMode = TRUE,
                     !.user = DemoUser, !.parents = <<>>, !.appointments = <<>>,
                     !.medicalNotes = <<>>, !.currentScreen = "onboarding"]

handleLogout7(c) ==
  [c EXCEPT !.storage.token = None, !.storage.user = None, !.user = None, !.parents = <<>>,
            !.appointments = <<>>, !.medicalNotes = <<>>, !.currentScreen = "login"]

\* handleLogin, up to signInWithPassword; emailMatches: the stored user has
\* the email of the form
handleLogin7(c, emailMatches) ==
  IF ~c.configured
  THEN IF c.storage.user # None /\ emailMatches
       THEN LET data == c.storage.demoData
                loaded == IF data.user # None
                          THEN [c EXCEPT !.parents = data.parents,
                                         !.appointments = data.appointments,
                                         !.medicalNotes = data.medicalNotes]
                          ELSE c
            IN  [loaded EXCEPT !.storage.isDemoMode = TRUE, !.user = c.storage.user,
                               !.currentScreen = IF c.parents = <<>> THEN "onboarding"
                                                 ELSE "dashboard"]
       ELSE c
  ELSE [c EXCEPT !.loading = TRUE, !.calls = @ \cup {Call("handleLogin", "signIn", None)}]

\* handleLogin, from signInWithPassword to fetchParents
handleLogin7SignedIn(c, call, r) ==
  IF r.error \/ r.session = None
  THEN [c EXCEPT !.loading = FALSE, !.calls = @ \ {call}]
  ELSE [c EXCEPT !.storage.token = r.session, !.storage.user = "A", !.user = "A",
                 !.calls = (@ \ {call}) \cup {Call("handleLogin", "fetchParents", r.session)}]

\* handleRegister, up to signUp
handleRegister7(c) ==
  IF ~c.configured
  THEN [c EXCEPT !.storage.isDemoMode = TRUE, !.storage.user = "demo-registered",
                 !.user = "demo-registered", !.currentScreen = "onboarding"]
  ELSE [c EXCEPT !.loading = TRUE, !.calls = @ \cup {Call("handleRegister", "signUp", None)}]

SessionStored(c, call, session) ==
  [c EXCEPT !.storage.token = session, !.storage.user = "A", !.user = "A",
            !.currentScreen = "onboarding", !.loading = FALSE, !.calls = @ \ {call}]

\* handleRegister, from signUp on; registered: the error says 'already
\* registered'
handleRegister7SignedUp(c, call, r, registered) ==
  IF r.error /\ ~registered THEN [c EXCEPT !.loading = FALSE, !.calls = @ \ {call}]
  ELSE IF ~r.error /\ r.session # None THEN SessionStored(c, call, r.session)
  ELSE [c EXCEPT !.calls = (@ \ {call}) \cup
          {Call("handleRegister", IF r.error THEN "signInRegistered" ELSE "signIn", None)}]

\* handleRegister, from its signInWithPassword on
handleRegister7SignedIn(c, call, r) ==
  IF ~r.error /\ r.session # None THEN SessionStored(c, call, r.session)
  ELSE IF call.at = "signInRegistered" THEN [c EXCEPT !.loading = FALSE, !.calls = @ \ {call}]
  ELSE [c EXCEPT !.currentScreen = "login", !.loading = FALSE, !.calls = @ \ {call}]

\* handleCreateParent, up to the fetch of POST /api/parents
handleCreateParent7(c) ==
  IF c.storage.isDemoMode
  THEN [c EXCEPT !.parents = Append(@, c.now), !.now = @ + 1, !.currentScreen = "dashboard"]
  ELSE handleCreateParent(c)

\* ---- the steps of this client
Step7(c) == client' = AutoSaved(client, c) /\ UNCHANGED ServerVars

ClickDemoMode7 ==
  /\ client.currentScreen = "login"
  /\ Step7(handleDemoMode7(client))

ClickLogout7 ==
  /\ client.currentScreen \in {"onboarding", "dashboard"}
  /\ Step7(handleLogout7(client))

SubmitLogin7 ==
  /\ client.currentScreen = "login" /\ ~client.loading
  /\ Cardinality(client.calls) < MaxCalls
  /\ \E emailMatches \in BOOLEAN : Step7(handleLogin7(client, emailMatches))

LoginSignedIn7 ==
  \E call \in Waits("handleLogin", "signIn"), r \in ProviderResponses :
    Step7(handleLogin7SignedIn(client, call, r))

LoginFetched7 ==
  \E call \in Waits("handleLogin", "fetchParents"), r \in ListResponses(0) :
    Step7(handleLoginFetched(client, call, r))

SubmitRegister7 ==
  /\ client.currentScreen = "register" /\ ~client.loading
  /\ Cardinality(client.calls) < MaxCalls
  /\ Step7(handleRegister7(client))

RegisterSignedUp7 ==
  \E call \in Waits("handleRegister", "signUp"), r \in ProviderResponses, registered \in BOOLEAN :
    Step7(handleRegister7SignedUp(client, call, r, registered))

RegisterSignedIn7 ==
  \E call \in Waits("handleRegister", "signIn") \cup Waits("handleRegister", "signInRegistered"),
     r \in ProviderResponses :
    Step7(handleRegister7SignedIn(client, call, r))

SubmitParent7 ==
  /\ client.currentScreen = "onboarding" /\ ~client.loading
  /\ Cardinality(client.calls) < MaxCalls
  /\ client.now <= MaxParents
  /\ Step7(handleCreateParent7(client))

ParentPosted7 ==
  \E call \in Waits("handleCreateParent", "post"), r \in PostResponses :
    Step7(handleCreateParentPosted(client, call, r))

ParentFetched7 ==
  \E call \in Waits("handleCreateParent", "fetchParents"), r \in ListResponses(0) :
    Step7(handleCreateParentFetched(client, call, r))

AppointmentsFetched7 ==
  \E call \in Waits("fetchAppointments", "fetch"), r \in ListResponses("a1") :
    Step7(fetchAppointments(client, call, r))

MedicalNotesFetched7 ==
  \E call \in Waits("fetchMedicalNotes", "fetch"), r \in ListResponses("n1") :
    Step7(fetchMedicalNotes(client, call, r))

ClickScreen7 ==
  \E screen \in ScreenButtons(client.currentScreen) :
    Step7([client EXCEPT !.currentScreen = screen])

\* The page has been loaded in a browser whose localStorage is empty, with the
\* provider configured or not.
InitDemo ==
  /\ db = NoRows
  /\ nextId = FirstIds
  /\ accounts = <<>>
  /\ sessions = <<>>
  /\ nextToken = 1
  /\ confirm = FALSE
  /\ outage = FALSE
  /\ reqs = [s \in Slots |-> Idle]
  /\ deleted = {}
  /\ client \in {AppState7(configured) : configured \in BOOLEAN}

NextDemo ==
  \/ ClickDemoMode7
  \/ ClickLogout7
  \/ SubmitLogin7
  \/ LoginSignedIn7
  \/ LoginFetched7
  \/ SubmitRegister7
  \/ RegisterSignedUp7
  \/ RegisterSignedIn7
  \/ SubmitParent7
  \/ ParentPosted7
  \/ ParentFetched7
  \/ AppointmentsFetched7
  \/ MedicalNotesFetched7
  \/ ClickScreen7

SpecDemo == InitDemo /\ [][NextDemo]_vars

\* ------------------------------------------------- the client's quick notes
\* handleQuickNoteChange and saveQuickNote of src/App.tsx. The record holds
\* quickNotes, the window's noteTimeout_ slots (0: none), the timers set and
\* not yet run or cleared, each with the ticks left of its 2000 ms (a tick is
\* one second) and the note its callback holds, the saves in flight, and the
\* stored token. lastEdit is history: the text of the last keystroke in each
\* textarea and the ticks since.
MaxTimers == 3
Delay == 2

NoteParents == {"p1", "p2"}
NoteTexts == {<<>>, <<" ">>, <<"a">>, <<"a", "b">>}

NotesState(token) ==
  [quickNotes |-> [p \in NoteParents |-> <<>>],
   noteTimeout |-> [p \in NoteParents |-> 0],
   timers |-> {}, nextTimer |-> 1, calls |-> {},
   storage |-> [token |-> token, user |-> token],
   lastEdit |-> [p \in NoteParents |-> [note |-> <<>>, age |-> Delay]]]

\* the previous timer is left to run
handleQuickNoteChangeUncleared(c, parentId, note) ==
  [c EXCEPT !.quickNotes[parentId] = note,
            !.timers = @ \cup {[id |-> c.nextTimer, parentId |-> parentId, note |-> note, left |-> Delay]},
            !.noteTimeout[parentId] = c.nextTimer,
            !.nextTimer = @ + 1,
            !.lastEdit[parentId] = [note |-> note, age |-> 0]]

\* handleQuickNoteChange: setTimeout, then clearTimeout of the slot's timer
handleQuickNoteChange(c, parentId, note) ==
  [c EXCEPT !.quickNotes[parentId] = note,
            !.timers = {t \in @ : t.id # c.noteTimeout[parentId]}
                       \cup {[id |-> c.nextTimer, parentId |-> parentId, note |-> note, left |-> Delay]},
            !.noteTimeout[parentId] = c.nextTimer,
            !.nextTimer = @ + 1,
            !.lastEdit[parentId] = [note |-> note, age |-> 0]]

\* saveQuickNote, up to the fetch of POST /api/notes
saveQuickNote(c, parentId, note) ==
  IF c.storage.token = None THEN c
  ELSE [c EXCEPT !.calls = @ \cup {[fn |-> "saveQuickNote", at |-> "post", token |-> c.storage.token,
                                    parentId |-> parentId, note |-> note]}]

\* the callback of setTimeout
timeoutCallback(c, t) ==
  LET ran == [c EXCEPT !.timers = @ \ {t}]
  IN  IF trim(t.note) # <<>> THEN saveQuickNote(ran, t.parentId, t.note) ELSE ran

\* saveQuickNote, from the response to fetchMedicalNotes
saveQuickNotePosted(c, call, ok) ==
  IF ok THEN [c EXCEPT !.calls = (@ \ {call}) \cup {[call EXCEPT !.at = "fetchMedicalNotes"]}]
  ELSE [c EXCEPT !.calls = @ \ {call}]

\* saveQuickNote, from fetchMedicalNotes on
saveQuickNoteFetched(c, call) ==
  [c EXCEPT !.calls = @ \ {call}, !.quickNotes[call.parentId] = <<>>]

\* a second passes
Elapsed(c) ==
  [c EXCEPT !.timers = {[t EXCEPT !.left = IF @ > 0 THEN @ - 1 ELSE 0] : t \in @},
            !.lastEdit = [p \in NoteParents |->
                            [@[p] EXCEPT !.age = IF @ < Delay THEN @ + 1 ELSE Delay]]]

\* ---- the steps
TypeQuickNote ==
  /\ client.nextTimer <= MaxTimers
  /\ \E p \in NoteParents, note \in NoteTexts :
       /\ note # client.quickNotes[p]
       /\ ClientStep(handleQuickNoteChange(client, p, note))

TimerRuns ==
  \E t \in client.timers :
    /\ t.left = 0
    /\ Cardinality(client.calls) < MaxCalls
    /\ ClientStep(timeoutCallback(client, t))

QuickNotePosted ==
  \E call \in Waits("saveQuickNote", "post"), ok \in BOOLEAN :
    ClientStep(saveQuickNotePosted(client, call, ok))

QuickNoteFetched ==
  \E call \in Waits("saveQuickNote", "fetchMedicalNotes") :
    ClientStep(saveQuickNoteFetched(client, call))

Tick ==
  /\ Elapsed(client) # client
  /\ ClientStep(Elapsed(client))

\* The dashboard shows two parents, for a user with a token or for the demo
\* user, who has none.
InitNotes ==
  /\ db = NoRows
  /\ nextId = FirstIds
  /\ accounts = <<>>
  /\ sessions = <<>>
  /\ nextToken = 1
  /\ confirm = FALSE
  /\ outage = FALSE
  /\ reqs = [s \in Slots |-> Idle]
  /\ deleted = {}
  /\ client \in {NotesState(None), NotesState("t0")}

NextNotes ==
  \/ TypeQuickNote
  \/ TimerRuns
  \/ QuickNotePosted
  \/ QuickNoteFetched
  \/ Tick

SpecNotes == InitNotes /\ [][NextNotes]_vars

\* ------------------------------------------------------------ the pet
\* petData, feedPet and recordParentCall of part_007. new Date() is the
\* client's clock `now`, counted in half days, so that a feed can come
\* exactly one day, between one and two days, exactly two days and more than
\* two days after the one before. lastCall is <<>> for '' and <<t>> for the
\* time t.
MaxNow == 8
MaxPoints == 100
DayLen == 2

Min(a, b) == IF a < b THEN a ELSE b

\* the initial petData, nothing being saved
PetState ==
  [petData |-> [name |-> "Buddy", happiness |-> 50, lastFed |-> 0, lastCall |-> <<>>,
                streak |-> 0, totalPoints |-> 0],
   now |-> 0]

\* the streak is lost after one day
feedPetResetAfterOneDay(c) ==
  LET sinceLastFeed == c.now - c.petData.lastFed
      newStreak == IF sinceLastFeed <= DayLen THEN c.petData.streak + 1 ELSE 0
  IN  [c EXCEPT !.petData = [@ EXCEPT !.happiness = Min(100, @ + 20),
                                      !.lastFed = c.now,
                                      !.streak = newStreak,
                                      !.totalPoints = @ + 10]]

feedPet(c) ==
  LET sinceLastFeed == c.now - c.petData.lastFed
      newStreak == IF sinceLastFeed <= DayLen THEN c.petData.streak + 1
                   ELSE IF sinceLastFeed > 2 * DayLen THEN 0
                   ELSE c.petData.streak
  IN  [c EXCEPT !.petData = [@ EXCEPT !.happiness = Min(100, @ + 20),
                                      !.lastFed = c.now,
                                      !.streak = newStreak,
                                      !.totalPoints = @ + 10]]

recordParentCall(c) ==
  [c EXCEPT !.petData = [@ EXCEPT !.happiness = Min(100, @ + 30),
                                  !.lastCall = <<c.now>>,
                                  !.totalPoints = @ + 50]]

\* ---- the steps
ClickFeedPet ==
  /\ client.petData.totalPoints + 10 <= MaxPoints
  /\ ClientStep(feedPet(client))

ClickRecordParentCall ==
  /\ client.petData.totalPoints + 50 <= MaxPoints
  /\ ClientStep(recordParentCall(client))

HalfDayPasses ==
  /\ client.now < MaxNow
  /\ ClientStep([client EXCEPT !.now = @ + 1])

InitPet ==
  /\ db = NoRows
  /\ nextId = FirstIds
  /\ accounts = <<>>
  /\ sessions = <<>>
  /\ nextToken = 1
  /\ confirm = FALSE
  /\ outage = FALSE
  /\ reqs = [s \in Slots |-> Idle]
  /\ deleted = {}
  /\ client = PetState

NextPet ==
  \/ ClickFeedPet
  \/ ClickRecordParentCall
  \/ HalfDayPasses

SpecPet == InitPet /\ [][NextPet]_vars

\* ------------------------------------------- removing and restoring a parent
\* The sidebar of part_007: the parent-delete-btn, the show-deleted-btn, the
\* restore-btn and the clear-deleted-btn. Parents are their ids. `server` is
\* the list GET /api/parents answers: removing a parent is local, the only
\* request of this part is the one of handleCreateParent, taken here with its
\* POST and the fetch after it in one step.
MaxCreated == 1

ServerParents == <<1, 2>>

IdsOf(seq) == {seq[i] : i \in DOMAIN seq}
Without(seq, id) == SelectSeq(seq, LAMBDA p : p # id)

SidebarState ==
  [parents |-> ServerParents, recentlyDeleted |-> <<>>, showDeleted |-> FALSE,
   server |-> ServerParents]

\* the parent-delete-btn
removeParent(c, id) ==
  IF id \in IdsOf(c.parents)
    THEN [c EXCEPT !.recentlyDeleted = Append(@, id), !.parents = Without(@, id)]
    ELSE c

\* the list of removed parents keeps the restored one
restoreParentKept(c, id) ==
  [c EXCEPT !.parents = Append(@, id)]

\* the restore-btn
restoreParent(c, id) ==
  [c EXCEPT !.parents = Append(@, id), !.recentlyDeleted = Without(@, id)]

\* the clear-deleted-btn
clearDeleted(c) == [c EXCEPT !.recentlyDeleted = <<>>]

\* handleCreateParent with a token: the server makes the parent, and the
\* parents are set to the server's list
handleCreateParentReloaded(c) ==
  LET made == Append(c.server, Len(c.server) + 1)
  IN  [c EXCEPT !.server = made, !.parents = made]

\* ---- the steps; the buttons are the ones rendered
ClickRemoveParent ==
  \E id \in IdsOf(client.parents) : ClientStep(removeParent(client, id))

ClickShowDeleted ==
  /\ client.parents # <<>>
  /\ client.recentlyDeleted # <<>>
  /\ ClientStep([client EXCEPT !.showDeleted = ~@])

ClickRestore ==
  /\ client.parents # <<>>
  /\ client.showDeleted
  /\ \E id \in IdsOf(client.recentlyDeleted) : ClientStep(restoreParent(client, id))

ClickClearDeleted ==
  /\ client.parents # <<>>
  /\ client.showDeleted
  /\ client.recentlyDeleted # <<>>
  /\ ClientStep(clearDeleted(client))

SubmitParentReloaded ==
  /\ Len(client.server) < Len(ServerParents) + MaxCreated
  /\ ClientStep(handleCreateParentReloaded(client))

InitRemove ==
  /\ db = NoRows
  /\ nextId = FirstIds
  /\ accounts = <<>>
  /\ sessions = <<>>
  /\ nextToken = 1
  /\ confirm = FALSE
  /\ outage = FALSE
  /\ reqs = [s \in Slots |-> Idle]
  /\ deleted = {}
  /\ client = SidebarState

NextRemove ==
  \/ ClickRemoveParent
  \/ ClickShowDeleted
  \/ ClickRestore
  \/ ClickClearDeleted
  \/ SubmitParentReloaded

SpecRemove == InitRemove /\ [][NextRemove]_vars

\* =================================================================== claims
Users == {"A", "B"}

\* Slot s takes a request in this step.
Begins(s) == reqs[s].pc = "idle" /\ reqs'[s].pc # "idle"

\* The call the request of slot s waited for completes in this step.
Resumes(s) == reqs[s].pc \notin {"idle", "done"} /\ reqs'[s].pc = "done"

\* Slot s holds the response to a request of the route.
Answered(s, route) == reqs[s].pc = "done" /\ reqs[s].req.route = route

Range(q) == {q[i] : i \in DOMAIN q}

ParentRoutes ==
  {"GET /api/parents/:id", "PUT /api/parents/:id", "DELETE /api/parents/:id",
   "GET /api/appointments/parent/:parentId", "GET /api/notes/parent/:parentId"}
AppointmentRoutes == {"PUT /api/appointments/:id", "DELETE /api/appointments/:id"}
NoteRoutes == {"PUT /api/notes/:id", "DELETE /api/notes/:id"}
PutRoutes == {"PUT /api/parents/:id", "PUT /api/appointments/:id", "PUT /api/notes/:id"}

\* the table of the row a route's :id names
TargetTable(route) ==
  IF route \in ParentRoutes THEN "parents"
  ELSE IF route \in AppointmentRoutes THEN "appointments" ELSE "medical_notes"

\* the users that own the row of the table with the id: the user of the
\* parent, or of the parent the child row references
Owners(d, table, id) ==
  IF table = "parents"
  THEN {p.user_id : p \in {x \in d.parents : x.id = id}}
  ELSE {p.user_id : p \in {x \in d.parents :
                             \E c \in d[table] : c.id = id /\ c.parent_id = x.id}}

\* the handler of a route that names a row, to its first wait or its response
TargetHandler(req, user, w) ==
  CASE req.route = "GET /api/parents/:id" -> ParentsGetById(req, user, w)
    [] req.route = "PUT /api/parents/:id" -> ParentsPut(req, user, w)
    [] req.route = "DELETE /api/parents/:id" -> ParentsDelete(req, user, w)
    [] req.route = "GET /api/appointments/parent/:parentId" ->
         ChildGetByParent(Router("appointments"), req, user, w)
    [] req.route = "GET /api/notes/parent/:parentId" ->
         ChildGetByParent(Router("medical_notes"), req, user, w)
    [] req.route = "PUT /api/appointments/:id" ->
         ChildPut(Router("appointments"), req, user, w)
    [] req.route = "DELETE /api/appointments/:id" ->
         ChildDelete(Router("appointments"), req, user, w)
    [] req.route = "PUT /api/notes/:id" -> ChildPut(Router("medical_notes"), req, user, w)
    [] req.route = "DELETE /api/notes/:id" ->
         ChildDelete(Router("medical_notes"), req, user, w)

\* the same request, naming an id that no row of the table ever had
NamingNoRow(req) == [req EXCEPT !.id = nextId[TargetTable(req.route)]]

\* In this step slot s takes a request of an authenticated user that names a
\* row another user owns.
TargetsForeignRow(s) ==
  /\ Begins(s)
  /\ reqs'[s].req.route \in ParentRoutes \cup AppointmentRoutes \cup NoteRoutes
  /\ reqs'[s].user # ""
  /\ Owners(db, TargetTable(reqs'[s].req.route), reqs'[s].req.id) \notin
       {{}, {reqs'[s].user}}

\* The response of slot s after the step is the one the same user gets for an
\* id that does not exist, and the step left every table as it was.
AnsweredAsAbsent(s) ==
  LET absent == TargetHandler(NamingNoRow(reqs'[s].req), reqs'[s].user, World)
  IN  /\ reqs'[s].pc = "done"
      /\ reqs'[s].status = absent.status
      /\ reqs'[s].body = absent.body
      /\ db' = db

ValidationFailure(slot) ==
  slot.pc = "done" /\ slot.status = 400 /\ slot.body.error = "Validation failed"

\* C1 (as amended): a read, update or delete by an authenticated user that names
\* a parent, appointment or note of another user gets the response the same
\* request gets for an id that does not exist, returns none of the owner's data
\* and leaves every table unchanged; that response is 404, except that a PUT
\* whose body fails validation is answered 400 before ownership is looked at.
C1_ForeignRowAnsweredAsAbsent ==
  [][\A s \in Slots :
       TargetsForeignRow(s) =>
         /\ AnsweredAsAbsent(s)
         /\ \/ reqs'[s].status = 404
            \/ reqs'[s].req.route \in PutRoutes /\ ValidationFailure(reqs'[s])]_vars

\* C1 as stated: the response is always 404.
C1_ForeignRowAlways404 ==
  [][\A s \in Slots :
       TargetsForeignRow(s) => AnsweredAsAbsent(s) /\ reqs'[s].status = 404]_vars

\* A's PUT on an appointment of B has been answered 404.
C1_Witness ==
  \E s \in Slots :
    /\ Answered(s, "PUT /api/appointments/:id")
    /\ reqs[s].user = "A"
    /\ Owners(db, "appointments", reqs[s].req.id) = {"B"}
    /\ reqs[s].status = 404

\* the list GET /api/parents returns to the user now
ParentsListed(user) ==
  ParentsGetList(Req("GET /api/parents", {}, 0, "", EmptyBody, <<>>), user, World).body.parents

\* the list GET /api/appointments or GET /api/notes returns to the user now,
\* when no other request runs between its two queries
ChildrenListed(table, user) ==
  LET r == Router(table)
      req == Req(IF table = "appointments" THEN "GET /api/appointments" ELSE "GET /api/notes",
                 {}, 0, "", EmptyBody, [i \in 1..(nextId[table] - 1) |-> i])
      first == ChildGetList(r, req, user, World)
  IN  IF first.pc = "done" THEN first.body[r.list]
      ELSE ChildGetListSelected(r, req, user, first.pending, first.calls, first.w).body[r.list]

\* C2 as stated: once POST /api/parents has answered 201, GET /api/parents by
\* the same user lists the created parent exactly once, and every field of the
\* POST body has its submitted value there.
C2_CreatedParentEchoesBody ==
  \A s \in Slots :
    Answered(s, "POST /api/parents") /\ reqs[s].status = 201 =>
      LET list == ParentsListed(reqs[s].user)
          at == {i \in DOMAIN list : list[i].id = reqs[s].body.parent.id}
      IN  /\ Cardinality(at) = 1
          /\ \A i \in at, f \in DOMAIN reqs[s].req.body :
               f \in DOMAIN list[i] /\ list[i][f] = reqs[s].req.body[f]

\* C3: a PUT by the owner of a parent, appointment or note whose body has none
\* of the resource's allow-listed fields is answered 400 'No fields to update'
\* without an update call, and every table is as it was.
C3_NoFieldsToUpdate ==
  [][\A s \in Slots :
       (/\ Begins(s)
        /\ reqs'[s].req.route \in PutRoutes
        /\ reqs'[s].user # ""
        /\ Owners(db, TargetTable(reqs'[s].req.route), reqs'[s].req.id) = {reqs'[s].user}
        /\ DOMAIN reqs'[s].req.body \cap
             (CASE reqs'[s].req.route = "PUT /api/parents/:id" -> ParentsAllowedFields
                [] reqs'[s].req.route = "PUT /api/appointments/:id" -> AppointmentsAllowedFields
                [] reqs'[s].req.route = "PUT /api/notes/:id" -> NotesAllowedFields) = {})
       => /\ reqs'[s].pc = "done"
          /\ reqs'[s].status = 400
          /\ reqs'[s].body = [error |-> "No fields to update"]
          /\ "updateRow" \notin Range(reqs'[s].calls)
          /\ db' = db]_vars

\* The owner's PUT of a body with no allow-listed field, but with other
\* fields, has been answered 400 'No fields to update'.
C3_Witness ==
  \E s \in Slots :
    /\ Answered(s, "PUT /api/parents/:id")
    /\ Owners(db, "parents", reqs[s].req.id) = {reqs[s].user}
    /\ DOMAIN reqs[s].req.body = {"user_id", "id"}
    /\ reqs[s].status = 400
    /\ reqs[s].body = [error |-> "No fields to update"]

\* C4: once DELETE /api/parents/:id has answered 200, no GET /api/parents of
\* any user lists that parent, and no GET /api/appointments or GET /api/notes
\* lists a row that referenced it.
C4_DeletedParentUnreachable ==
  \A d \in deleted, u \in Users :
    /\ \A i \in DOMAIN ParentsListed(u) : ParentsListed(u)[i].id # d.id
    /\ \A t \in ChildTables :
         \A i \in DOMAIN ChildrenListed(t, u) :
           /\ ChildrenListed(t, u)[i].parent_id # d.id
           /\ <<t, ChildrenListed(t, u)[i].id>> \notin d.children

\* A parent that an appointment referenced has been deleted.
C4_Witness ==
  \E d \in deleted : \E c \in d.children : c[1] = "appointments"

\* C5: once POST /api/appointments with a calendar date has answered 201, GET
\* /api/appointments by the same user lists the created appointment with the
\* submitted date and time and completed false.
C5_CreatedAppointmentRoundTrip ==
  \A s \in Slots :
    (/\ Answered(s, "POST /api/appointments")
     /\ reqs[s].status = 201
     /\ Len(reqs[s].req.body.date) = 1)
    => \E i \in DOMAIN ChildrenListed("appointments", reqs[s].user) :
         LET a == ChildrenListed("appointments", reqs[s].user)[i]
         IN  /\ a.id = reqs[s].body.appointment.id
             /\ a.date = reqs[s].req.body.date
             /\ a.time = reqs[s].req.body.time
             /\ a.completed = FALSE

\* An appointment has been created from a calendar date and a time.
C5_Witness ==
  \E s \in Slots :
    /\ Answered(s, "POST /api/appointments")
    /\ reqs[s].status = 201
    /\ reqs[s].req.body.date = Day1
    /\ reqs[s].req.body.time = HalfPastNine

\* What a registered user who has no parents yet gets from: login with the
\* account's credentials, GET /api/parents with the token of the login, POST
\* /api/parents {name: 'Mom', relationship: 'mom'}, GET /api/parents.
FirstSession(email) ==
  LET login == AuthLogin(Req("POST /api/auth/login", {}, 0, "",
                             [email |-> email, password |-> accounts[email].password], <<>>),
                         World)
      auth == IF login.status = 200 THEN {login.body.session[1].access_token} ELSE {}
      get == Req("GET /api/parents", auth, 0, "", EmptyBody, <<>>)
      post == Req("POST /api/parents", auth, 0, "", [name |-> Mom, relationship |-> "mom"], <<>>)
      empty == Handle(get, login.w, ParentsGetList(get, Caller(get, login.w), login.w))
      created == Handle(post, empty.w, ParentsPost(post, Caller(post, empty.w), empty.w))
      one == Handle(get, created.w, ParentsGetList(get, Caller(get, created.w), created.w))
  IN  /\ login.status = 200
      /\ login.body.session # Null
      /\ empty.status = 200
      /\ empty.body.parents = <<>>
      /\ created.status = 201
      /\ one.status = 200
      /\ Len(one.body.parents) = 1
      /\ one.body.parents[1].name = Mom

NewlyRegistered ==
  {e \in DOMAIN accounts : selectRows(db, "parents", [user_id |-> accounts[e].user.id]) = {}}

SubmitsAge(s) ==
  /\ Begins(s)
  /\ reqs'[s].req.route \in {"POST /api/parents", "PUT /api/parents/:id"}
  /\ reqs'[s].user # ""
  /\ "age" \in DOMAIN reqs'[s].req.body
  /\ reqs'[s].req.body.age # Null
  /\ validationResult(IF reqs'[s].req.route = "POST /api/parents"
                      THEN ParentsPostValidators ELSE ParentsPutValidators,
                      [f \in DOMAIN reqs'[s].req.body \ {"age"} |-> reqs'[s].req.body[f]]) = <<>>

\* the stored parent with the id has the age
StoredAge(d, id, age) == \E p \in d.parents : p.id = id /\ p.age = age

\* C7: parent create and update reject an integer age below 1 or above 150
\* with 400 and write nothing, and accept an age in 1..150, which the created
\* or updated row then stores.
C7_AgeAcceptedFrom1To150 ==
  [][\A s \in Slots :
       /\ SubmitsAge(s) =>
            LET age == reqs'[s].req.body.age[1]
            IN  /\ ValidationFailure(reqs'[s]) <=> (age < 1 \/ age > 150)
                /\ ValidationFailure(reqs'[s]) =>
                     /\ \E i \in DOMAIN reqs'[s].body.details :
                          reqs'[s].body.details[i].path = "age"
                     /\ db' = db
                /\ (~ValidationFailure(reqs'[s]) /\ reqs'[s].req.route = "POST /api/parents") =>
                     /\ reqs'[s].status = 201
                     /\ reqs'[s].body.parent.age = <<age>>
                     /\ StoredAge(db', reqs'[s].body.parent.id, <<age>>)
                /\ (/\ ~ValidationFailure(reqs'[s])
                    /\ reqs'[s].req.route = "PUT /api/parents/:id"
                    /\ Owners(db, "parents", reqs'[s].req.id) = {reqs'[s].user}) =>
                     reqs'[s].pc = "updateRow"
       /\ (/\ Resumes(s)
           /\ reqs'[s].req.route = "PUT /api/parents/:id"
           /\ "age" \in DOMAIN reqs'[s].req.body
           /\ reqs'[s].status = 200) =>
            /\ reqs'[s].body.parent.age = reqs'[s].req.body.age
            /\ StoredAge(db', reqs'[s].req.id, reqs'[s].req.body.age)]_vars

\* Ages 150 and 151 have been submitted in updates of a parent of the caller:
\* 150 is stored, 151 was answered 400.
C7_Witness ==
  \E s \in Slots :
    /\ Answered(s, "PUT /api/parents/:id")
    /\ reqs[s].req.body = [age |-> <<151>>]
    /\ reqs[s].status = 400
    /\ StoredAge(db, reqs[s].req.id, <<150>>)
    /\ Owners(db, "parents", reqs[s].req.id) = {reqs[s].user}

\* a 24-hour HH:MM value: two-digit hour 00..23, two-digit minute 00..59
IsHHMM(t) ==
  /\ Len(t) = 5
  /\ t[3] = ":"
  /\ \E h1, h2, m1, m2 \in 0..9 :
       /\ <<t[1], t[2], t[4], t[5]>> =
            <<DigitChars[h1 + 1], DigitChars[h2 + 1], DigitChars[m1 + 1], DigitChars[m2 + 1]>>
       /\ 10 * h1 + h2 <= 23
       /\ 10 * m1 + m2 <= 59

\* C8 as stated: appointment create and update reject the body for its time
\* exactly when the time is not a 24-hour HH:MM value.
C8_TimeAcceptedExactlyWhenHHMM ==
  \A s \in Slots :
    (/\ reqs[s].pc = "done"
     /\ reqs[s].req.route \in {"POST /api/appointments", "PUT /api/appointments/:id"}
     /\ reqs[s].user # ""
     /\ "time" \in DOMAIN reqs[s].req.body)
    => ((/\ ValidationFailure(reqs[s])
         /\ \E i \in DOMAIN reqs[s].body.details : reqs[s].body.details[i].path = "time")
        <=> ~IsHHMM(reqs[s].req.body.time))

\* the validator chains of the create and update routes
ValidatorsOf(route) ==
  CASE route = "POST /api/parents" -> ParentsPostValidators
    [] route = "PUT /api/parents/:id" -> ParentsPutValidators
    [] route = "POST /api/appointments" -> AppointmentsPostValidators
    [] route = "PUT /api/appointments/:id" -> AppointmentsPutValidators
    [] route = "POST /api/notes" -> NotesPostValidators
    [] route = "PUT /api/notes/:id" -> NotesPutValidators

DataCalls ==
  {"select", "selectRow", "selectRows", "insertRow", "updateRow", "deleteRow",
   "auth.signUp", "auth.signInWithPassword"}

\* the response to a body that fails the chains: 400 with one entry per failing
\* field, after no data call, the provider and the tables untouched
RejectedAsInvalid(out, validators, body, w) ==
  /\ out.pc = "done"
  /\ out.status = 400
  /\ out.body = [error |-> "Validation failed", details |-> validationResult(validators, body)]
  /\ \A i \in DOMAIN out.body.details : DOMAIN out.body.details[i] = {"path", "msg"}
  /\ Range(out.calls) \cap DataCalls = {}
  /\ out.w = w

\* C9: a create or update of a parent, appointment or note by an authenticated
\* user, a register and a login whose body fails validation is answered 400
\* with the failing fields listed, and makes no select, insert, update, delete,
\* sign-up or sign-in call.
C9_InvalidBodyReachesNoData ==
  /\ [](/\ \A b \in RegisterBodies :
             validationResult(RegisterValidators, b) # <<>> =>
               RejectedAsInvalid(
                 AuthRegister(Req("POST /api/auth/register", {}, 0, "", b, <<>>), World),
                 RegisterValidators, b, World)
        /\ \A b \in LoginBodies :
             validationResult(LoginValidators, b) # <<>> =>
               RejectedAsInvalid(
                 AuthLogin(Req("POST /api/auth/login", {}, 0, "", b, <<>>), World),
                 LoginValidators, b, World))
  /\ [][\A s \in Slots :
          (/\ Begins(s)
           /\ reqs'[s].req.route \in PutRoutes \cup
                {"POST /api/parents", "POST /api/appointments", "POST /api/notes"}
           /\ reqs'[s].user # ""
           /\ validationResult(ValidatorsOf(reqs'[s].req.route), reqs'[s].req.body) # <<>>)
          => /\ RejectedAsInvalid(reqs'[s] @@ [w |-> World'],
                                  ValidatorsOf(reqs'[s].req.route), reqs'[s].req.body, World)
             /\ deleted' = deleted]_vars

\* An update of the caller's appointment with the time '25:61' has been
\* answered 400 with the time listed.
C9_Witness ==
  \E s \in Slots :
    /\ Answered(s, "PUT /api/appointments/:id")
    /\ Owners(db, "appointments", reqs[s].req.id) = {reqs[s].user}
    /\ reqs[s].req.body = [time |-> TwentyFiveSixtyOne]
    /\ ValidationFailure(reqs[s])
    /\ reqs[s].body.details = <<[path |-> "time", msg |-> "Valid time required (HH:MM)"]>>

\* the outcome of the middleware's rejection
Unauthorized(s) ==
  /\ reqs'[s].pc = "done"
  /\ reqs'[s].status = 401
  /\ reqs'[s].body = [error |-> "Unauthorized"]
  /\ UNCHANGED <<db, nextId, accounts, sessions, nextToken, deleted>>

\* C10: on every route of the parents, appointments and notes routers, a
\* request without a bearer token is answered Unauthorized without a call to
\* the provider, and a request whose token the provider does not resolve at
\* that moment, whatever it resolved before, is answered Unauthorized after the
\* one identity call; neither runs a handler or makes a database call.
C10_UnresolvedTokenUnauthorized ==
  [][\A s \in Slots :
       (Begins(s) /\ RouterOf(reqs'[s].req.route) \in {"parents", "appointments", "notes"}) =>
         /\ reqs'[s].req.auth = {} => Unauthorized(s) /\ reqs'[s].calls = <<>>
         /\ (reqs'[s].req.auth # {} /\ ~(reqs'[s].req.auth \subseteq DOMAIN sessions)) =>
              Unauthorized(s) /\ reqs'[s].calls = <<"auth.getUser">>]_vars

\* The token A created a parent with has expired, and a request that carries
\* it has been answered Unauthorized.
C10_Witness ==
  \E s \in Slots :
    /\ reqs[s].pc = "done"
    /\ reqs[s].req.auth = {1}
    /\ reqs[s].status = 401
    /\ \E p \in db.parents : p.user_id = "A"

\* C11 as stated: every response of POST /api/auth/register is of one of three
\* classes: 201 carrying user and session, 200 carrying
\* requiresEmailConfirmation true, or 400.
C11_RegisterThreeOutcomes ==
  \A s \in Slots :
    Answered(s, "POST /api/auth/register") =>
      \/ /\ reqs[s].status = 201
         /\ {"user", "session"} \subseteq DOMAIN reqs[s].body
         /\ reqs[s].body.session # Null
      \/ /\ reqs[s].status = 200
         /\ "requiresEmailConfirmation" \in DOMAIN reqs[s].body
         /\ reqs[s].body.requiresEmailConfirmation = TRUE
      \/ reqs[s].status = 400

\* In this step slot s takes a request of the auth route with a body that
\* passes the route's validators.
BeginsWellFormed(s, route, validators) ==
  /\ Begins(s)
  /\ reqs'[s].req.route = route
  /\ validationResult(validators, reqs'[s].req.body) = <<>>

\* the session of a response is one the provider resolves to the user
SessionOf(slot, user) ==
  /\ "session" \in DOMAIN slot.body
  /\ slot.body.session # Null
  /\ slot.body.session[1].access_token \in DOMAIN sessions'
  /\ sessions'[slot.body.session[1].access_token] = user

\* C12: when the provider answers the sign-up of a register request with
\* 'already registered', the route makes exactly one sign-in call, with the
\* email and password of the request: if the provider accepts it the response
\* (200) carries that account's user and a session of that user, and if not
\* the response is 400 without a session; after any other sign-up error the
\* response is 400 and no sign-in call is made.
C12_SignInOnlyWhenAlreadyRegistered ==
  [][\A s \in Slots :
       /\ BeginsWellFormed(s, "POST /api/auth/register", RegisterValidators) =>
            LET b == reqs'[s].req.body
                signedUp == signUp(World, b.email, b.password, trim(b.name))
            IN  /\ signedUp.error = "User already registered" =>
                     /\ reqs'[s].pc = "auth.signInWithPassword"
                     /\ reqs'[s].calls = <<"auth.signUp", "auth.signInWithPassword">>
                     /\ UNCHANGED <<accounts, sessions>>
                /\ signedUp.error \notin {"", "User already registered"} =>
                     /\ reqs'[s].pc = "done"
                     /\ reqs'[s].status = 400
                     /\ "session" \notin DOMAIN reqs'[s].body
                     /\ reqs'[s].calls = <<"auth.signUp">>
                     /\ UNCHANGED <<accounts, sessions>>
       /\ (/\ Resumes(s)
           /\ reqs[s].req.route = "POST /api/auth/register"
           /\ reqs[s].pending.branch = "exists") =>
            LET b == reqs[s].req.body
                signedIn == signInWithPassword(World, b.email, b.password)
            IN  /\ reqs'[s].calls = <<"auth.signUp", "auth.signInWithPassword">>
                /\ signedIn.error = "" =>
                     /\ reqs'[s].status = 200
                     /\ reqs'[s].body.user.id = accounts[b.email].user.id
                     /\ reqs'[s].body.user.email = b.email
                     /\ SessionOf(reqs'[s], accounts[b.email].user.id)
                /\ signedIn.error # "" =>
                     /\ reqs'[s].status = 400
                     /\ "session" \notin DOMAIN reqs'[s].body
                     /\ UNCHANGED <<accounts, sessions>>]_vars

\* A register request for an account that exists, with its password, has been
\* answered with the account's user and a session after one sign-up and one
\* sign-in call.
C12_Witness ==
  \E s \in Slots :
    /\ Answered(s, "POST /api/auth/register")
    /\ reqs[s].calls = <<"auth.signUp", "auth.signInWithPassword">>
    /\ reqs[s].status = 200
    /\ reqs[s].body.session # Null
    /\ reqs[s].body.user.id = accounts[reqs[s].req.body.email].user.id

\* the provider accepts the credentials now: it is reachable, and they are those
\* of an account that may sign in
ProviderAccepts(email, password) ==
  /\ ~outage
  /\ email \in DOMAIN accounts
  /\ accounts[email].password = password
  /\ accounts[email].confirmed

\* C13: POST /api/auth/login with a well-formed body is answered 200 with the
\* account's user and a session of that user exactly when the provider accepts
\* the credentials, and 401 without a session whenever it rejects them.
C13_LoginAcceptedOrUnauthorized ==
  [][\A s \in Slots :
       BeginsWellFormed(s, "POST /api/auth/login", LoginValidators) =>
         LET b == reqs'[s].req.body
         IN  /\ reqs'[s].pc = "done"
             /\ reqs'[s].status = 200 <=> ProviderAccepts(b.email, b.password)
             /\ ProviderAccepts(b.email, b.password) =>
                  /\ reqs'[s].body.user.id = accounts[b.email].user.id
                  /\ reqs'[s].body.user.email = b.email
                  /\ SessionOf(reqs'[s], accounts[b.email].user.id)
             /\ ~ProviderAccepts(b.email, b.password) =>
                  /\ reqs'[s].status = 401
                  /\ "session" \notin DOMAIN reqs'[s].body
                  /\ UNCHANGED sessions]_vars

\* A login with the wrong password of a confirmed account has been answered 401,
\* and the provider has issued a session to a login with the right one.
C13_Witness ==
  \E s \in Slots :
    /\ Answered(s, "POST /api/auth/login")
    /\ reqs[s].status = 401
    /\ reqs[s].req.body.email \in DOMAIN accounts
    /\ accounts[reqs[s].req.body.email].confirmed
    /\ accounts[reqs[s].req.body.email].password # reqs[s].req.body.password
    /\ \E t \in DOMAIN sessions : sessions[t] = accounts[reqs[s].req.body.email].user.id

\* C14 as stated: an appointment whose completed flag is true never has it
\* false again; the flag only goes from false to true.
C14_CompletedNeverReverts ==
  [][\A a \in db.appointments :
       a.completed => \A b \in db'.appointments : b.id = a.id => b.completed]_vars

CreateRoutes == {"POST /api/appointments", "POST /api/notes"}
ByParentRoutes ==
  {"GET /api/appointments/parent/:parentId", "GET /api/notes/parent/:parentId"}

\* In this step slot s takes, from an authenticated user, a create of an
\* appointment or note, or a read of a parent's appointments or notes, that
\* names a parent of another user or no parent at all.
NamesForeignParent(s) ==
  /\ Begins(s)
  /\ reqs'[s].req.route \in CreateRoutes \cup ByParentRoutes
  /\ reqs'[s].user # ""
  /\ IF reqs'[s].req.route \in ByParentRoutes
     THEN Owners(db, "parents", reqs'[s].req.id) # {reqs'[s].user}
     ELSE "parent_id" \in DOMAIN reqs'[s].req.body =>
            Owners(db, "parents", reqs'[s].req.body.parent_id) # {reqs'[s].user}

\* The request of slot s is answered 404 'Parent not found' and nothing else,
\* after the parent lookup alone.
ParentNotFound(s) ==
  /\ reqs'[s].status = 404
  /\ reqs'[s].body = [error |-> "Parent not found"]
  /\ Range(reqs'[s].calls) \cap DataCalls = {"selectRow"}

BeginsUnmatched(s) ==
  /\ Begins(s)
  /\ reqs'[s].req.route = "*"
  /\ ~(reqs'[s].req.method = "GET" /\ reqs'[s].req.path = <<"api", "health">>)

\* the response of slot s is a JSON error body, not a file
JsonError(slot) == DOMAIN slot.body = {"error"}

\* the request's path lies under a router that authenticates, and it carries no
\* token the provider resolves
StoppedByMiddleware(req) ==
  /\ MountOf(req.path) \in {"parents", "appointments", "notes"}
  /\ outage \/ req.auth = {} \/ ~(req.auth \subseteq DOMAIN sessions)

ProviderMessages ==
  {"fetch failed", "User already registered", "Invalid login credentials", "Email not confirmed"}

\* In this step a call of the auth router's handler of slot s to the provider
\* fails because the provider cannot be reached.
ProviderCallFails(s) ==
  /\ outage
  /\ \/ BeginsWellFormed(s, "POST /api/auth/register", RegisterValidators)
     \/ BeginsWellFormed(s, "POST /api/auth/login", LoginValidators)
     \/ Resumes(s) /\ reqs[s].req.route = "POST /api/auth/register"

\* C17 as stated: a response never carries a message of the provider, and a
\* request whose call to the provider fails unexpectedly is answered 500.
C17_ProviderFailureIsGeneric500 ==
  [][\A s \in Slots :
       /\ (reqs'[s].pc = "done" /\ "error" \in DOMAIN reqs'[s].body) =>
            reqs'[s].body.error \notin ProviderMessages
       /\ ProviderCallFails(s) => reqs'[s].pc = "done" /\ reqs'[s].status = 500]_vars

\* every appointment and note references a parent that exists
ReferencesHold(d) ==
  \A t \in ChildTables : \A c \in d[t] : \E p \in d.parents : p.id = c.parent_id

\* In this step the mutation call of an update or delete in slot s completes,
\* and the row the request names, which its ownership check found, is gone.
MutatesDeletedTarget(s) ==
  /\ Resumes(s)
  /\ reqs[s].req.route \in PutRoutes \cup
       {"DELETE /api/parents/:id", "DELETE /api/appointments/:id", "DELETE /api/notes/:id"}
  /\ \A r \in db[TargetTable(reqs[s].req.route)] : r.id # reqs[s].req.id

\* C18 as stated: an update or delete whose target row was deleted between its
\* ownership check and its mutation call ends with 404, and the tables are
\* left as they were, every child row referencing a parent.
C18_DeletedTargetAnswered404 ==
  [][\A s \in Slots :
       MutatesDeletedTarget(s) =>
         /\ reqs'[s].status = 404
         /\ db' = db
         /\ ReferencesHold(db')]_vars

\* In this step slot s takes, from an authenticated user, an update or delete
\* of an appointment or note that the user does not own or that does not exist.
TargetsUnownedChild(s) ==
  /\ Begins(s)
  /\ reqs'[s].req.route \in AppointmentRoutes \cup NoteRoutes
  /\ reqs'[s].user # ""
  /\ Owners(db, TargetTable(reqs'[s].req.route), reqs'[s].req.id) # {reqs'[s].user}

\* The request of slot s is answered 404 with the router's 'not found' error
\* after the one select of the ownership check.
ChildNotFound(s) ==
  /\ reqs'[s].status = 404
  /\ reqs'[s].body = [error |-> Router(TargetTable(reqs'[s].req.route)).notFound]
  /\ Range(reqs'[s].calls) \cap DataCalls = {"select"}

\* C19 (as amended): in update and delete of an appointment or note the
\* ownership check precedes the allow-list check: a caller who does not own the
\* target, or whose target does not exist, is never answered 400 'No fields to
\* update' and changes no row; the answer is 404, except that an update whose
\* body fails validation is answered 400 'Validation failed', which depends on
\* the body alone.
C19_OwnershipBeforeAllowList ==
  [][\A s \in Slots :
       TargetsUnownedChild(s) =>
         /\ reqs'[s].pc = "done"
         /\ db' = db
         /\ reqs'[s].body # [error |-> "No fields to update"]
         /\ ValidationFailure(reqs'[s]) <=>
              /\ reqs'[s].req.route \in PutRoutes
              /\ validationResult(ValidatorsOf(reqs'[s].req.route), reqs'[s].req.body) # <<>>
         /\ ~ValidationFailure(reqs'[s]) => ChildNotFound(s)]_vars

\* C19 as stated: the answer is 404 whatever the body contains.
C19_UnownedChildAlways404 ==
  [][\A s \in Slots :
       TargetsUnownedChild(s) => reqs'[s].pc = "done" /\ ChildNotFound(s)]_vars

\* An update of another user's note whose body has no allow-listed field has
\* been answered 404.
C19_Witness ==
  \E s \in Slots :
    /\ Answered(s, "PUT /api/notes/:id")
    /\ reqs[s].user # ""
    /\ Owners(db, "medical_notes", reqs[s].req.id) \notin {{}, {reqs[s].user}}
    /\ DOMAIN reqs[s].req.body \cap NotesAllowedFields = {}
    /\ reqs[s].status = 404
    /\ reqs[s].body = [error |-> "Medical note not found"]

\* The allow list of the router of an update route.
AllowedFieldsOf(route) ==
  CASE route = "PUT /api/parents/:id" -> ParentsAllowedFields
    [] route = "PUT /api/appointments/:id" -> AppointmentsAllowedFields
    [] route = "PUT /api/notes/:id" -> NotesAllowedFields

\* The columns that tell which row it is and whose: never on an allow list.
KeyColumns(table) == IF table = "parents" THEN {"id", "user_id"} ELSE {"id", "parent_id"}

\* In this step the update request of slot s returns from its updateRow call.
UpdateReturns(s) ==
  /\ reqs[s].pc \notin {"idle", "done"}
  /\ reqs[s].req.route \in PutRoutes
  /\ reqs'[s].pc = "done"

\* C20: a PUT changes only allow-listed fields. The step in which an update
\* returns leaves every table with the rows of the same ids, changes no table
\* but its own, and changes in its target no column but those that are both on
\* the router's allow list and in the body; and in every step whatsoever a row
\* that stays keeps its id, its user_id (a parent) and its parent_id (an
\* appointment or note).
C20_PutChangesOnlyAllowListed ==
  [][/\ \A t \in Tables : \A old \in db[t] : \A new \in db'[t] :
          new.id = old.id => \A c \in KeyColumns(t) : new[c] = old[c]
     /\ \A s \in Slots :
          UpdateReturns(s) =>
            LET table == TargetTable(reqs[s].req.route)
                changeable == AllowedFieldsOf(reqs[s].req.route) \cap DOMAIN reqs[s].req.body
            IN  /\ \A t \in Tables : {r.id : r \in db'[t]} = {r.id : r \in db[t]}
                /\ \A t \in Tables \ {table} : db'[t] = db[t]
                /\ \A old \in db[table] : \A new \in db'[table] :
                     new.id = old.id =>
                       /\ DOMAIN new = DOMAIN old
                       /\ \A c \in DOMAIN old \ changeable : new[c] = old[c]
                       /\ old.id # reqs[s].req.id => new = old]_vars

\* An update of an appointment whose body named, besides an allow-listed
\* field, another id and another parent has been answered 200, and the
\* appointment has the new value of the allow-listed field under its own id
\* and parent.
C20_Witness ==
  \E s \in Slots :
    /\ Answered(s, "PUT /api/appointments/:id")
    /\ reqs[s].status = 200
    /\ {"id", "parent_id", "completed"} \subseteq DOMAIN reqs[s].req.body
    /\ \E r \in db.appointments :
         /\ r.id = reqs[s].req.id
         /\ r.id # reqs[s].req.body.id
         /\ r.parent_id # reqs[s].req.body.parent_id
         /\ r.completed = reqs[s].req.body.completed

ListRoutes == {"GET /api/appointments", "GET /api/notes", "GET /api/notes/type/:type"}

ListTable(route) == IF route = "GET /api/appointments" THEN "appointments" ELSE "medical_notes"

\* the ids of the parents of the user
OwnParentIds(d, user) == {p.id : p \in {q \in d.parents : q.user_id = user}}

\* the rows the list request is to return: those of the caller's parents and,
\* on the type route, of the type asked for
RowsToList(d, req, user) ==
  {r \in d[ListTable(req.route)] :
     /\ r.parent_id \in OwnParentIds(d, user)
     /\ req.route = "GET /api/notes/type/:type" => r.type = req.type}

\* a listed row without the columns of its parent embedded by the query
Bare(row) == [c \in DOMAIN row \ {"parents"} |-> row[c]]

\* the calls the request of the slot has issued to the tables, in their order
IssuedToData(slot) ==
  LET at == {i \in 1..Len(slot.calls) : slot.calls[i] \in DataCalls}
  IN  [k \in 1..Cardinality(at) |->
         slot.calls[CHOOSE i \in at : Cardinality({h \in at : h <= i}) = k]]

\* The type route is asked for a type that is none of the four note types.
InvalidType(req) == req.route = "GET /api/notes/type/:type" /\ req.type \notin NoteTypes

\* The list of the response of slot s holds each of the rows once, later dates
\* first, each row with the id, name and user_id of its parent.
ListsByDateDesc(slot, d, rows) ==
  LET list == slot.body[Router(ListTable(slot.req.route)).list]
  IN  /\ Len(list) = Cardinality(rows)
      /\ {Bare(list[i]) : i \in 1..Len(list)} = rows
      /\ \A i, j \in 1..Len(list) :
           i < j => DayIndex(list[i].date[1]) >= DayIndex(list[j].date[1])
      /\ \A i \in 1..Len(list) : \E p \in d.parents :
           /\ p.id = list[i].parent_id
           /\ list[i].parents = [id |-> p.id, name |-> p.name, user_id |-> p.user_id]

\* C21 (as amended): GET /api/appointments, GET /api/notes and GET
\* /api/notes/type/:type with a valid type first resolve the caller's parent
\* ids; when that set is empty they answer 200 with an empty list after that
\* one query, and otherwise they query the child table and answer 200 with
\* exactly the child rows whose parent_id is in the set (and whose type
\* matches, on the type route), later dates first. A type that is none of the
\* four note types is answered 400 'Invalid note type' before any query.
C21_ListsOwnChildrenByDateDesc ==
  [][\A s \in Slots :
       /\ (Begins(s) /\ reqs'[s].req.route \in ListRoutes /\ reqs'[s].user # "") =>
            IF InvalidType(reqs'[s].req)
            THEN /\ reqs'[s].pc = "done"
                 /\ reqs'[s].status = 400
                 /\ reqs'[s].body = [error |-> "Invalid note type"]
                 /\ IssuedToData(reqs'[s]) = <<>>
            ELSE IF OwnParentIds(db, reqs'[s].user) = {}
            THEN /\ reqs'[s].pc = "done"
                 /\ reqs'[s].status = 200
                 /\ reqs'[s].body = (Router(ListTable(reqs'[s].req.route)).list :> <<>>)
                 /\ IssuedToData(reqs'[s]) = <<"selectRows">>
            ELSE /\ reqs'[s].pc = "select"
                 /\ IssuedToData(reqs'[s]) = <<"selectRows", "select">>
                 /\ reqs'[s].pending = OwnParentIds(db, reqs'[s].user)
       /\ (Resumes(s) /\ reqs[s].req.route \in ListRoutes) =>
            /\ reqs'[s].status = 200
            /\ IssuedToData(reqs'[s]) = <<"selectRows", "select">>
            /\ DOMAIN reqs'[s].body = {Router(ListTable(reqs[s].req.route)).list}
            /\ ListsByDateDesc(reqs'[s], db, RowsToList(db, reqs[s].req, reqs[s].user))
            /\ db' = db]_vars

\* C21 as stated: whenever the caller has no parent, the three routes answer
\* with an empty list.
C21_NoParentsEmptyList ==
  [][\A s \in Slots :
       (/\ Begins(s)
        /\ reqs'[s].req.route \in ListRoutes
        /\ reqs'[s].user # ""
        /\ OwnParentIds(db, reqs'[s].user) = {}) =>
         /\ reqs'[s].pc = "done"
         /\ reqs'[s].status = 200
         /\ reqs'[s].body = (Router(ListTable(reqs'[s].req.route)).list :> <<>>)]_vars

\* GET /api/appointments has listed the three appointments of the caller, the
\* one of the later day first, while the table holds a fourth of another user.
C21_Witness ==
  \E s \in Slots :
    /\ Answered(s, "GET /api/appointments")
    /\ reqs[s].status = 200
    /\ Len(reqs[s].body.appointments) = 3
    /\ reqs[s].body.appointments[1].date = Day2
    /\ reqs[s].body.appointments[2].date = Day1
    /\ \A i \in 1..3 : reqs[s].body.appointments[i].parents.user_id = reqs[s].user
    /\ Cardinality(db.appointments) = 4

DeleteRoutes == {"DELETE /api/parents/:id", "DELETE /api/appointments/:id", "DELETE /api/notes/:id"}

\* the filters the delete handlers pass to deleteRow, over the ids issued so
\* far and one that never was
DeleteFilters(table) ==
  IF table = "parents"
  THEN {[id |-> i, user_id |-> u] : i \in Ids(table), u \in Users}
  ELSE {[id |-> i] : i \in Ids(table)}

\* the filters of the deleteRow call the request waits for
FiltersOf(slot) ==
  IF slot.req.route = "DELETE /api/parents/:id"
  THEN [id |-> slot.req.id, user_id |-> slot.user]
  ELSE [id |-> slot.req.id]

\* C22: the gateway's delete is idempotent. Over the tables of every reachable
\* state and every filter the handlers pass, deleteRow reports success, leaves
\* no matching row, changes nothing when no row matches, and applied again to
\* its own result reports success again and returns the same tables; and the
\* step in which a handler's deleteRow call completes leaves no matching row
\* and, when none matched, the tables as they were.
C22_DeleteRowIdempotent ==
  [][/\ \A t \in Tables : \A f \in DeleteFilters(t) :
          LET once == deleteRow(World, t, f)
              twice == deleteRow(once.w, t, f)
          IN  /\ once.error = ""
              /\ selectRows(once.w.db, t, f) = {}
              /\ selectRows(db, t, f) = {} => once.w = World
              /\ twice.error = once.error
              /\ twice.w = once.w
     /\ \A s \in Slots :
          (Resumes(s) /\ reqs[s].req.route \in DeleteRoutes) =>
            LET t == TargetTable(reqs[s].req.route)
            IN  /\ selectRows(db', t, FiltersOf(reqs[s])) = {}
                /\ selectRows(db, t, FiltersOf(reqs[s])) = {} => db' = db
                /\ \A x \in Tables : db'[x] \subseteq db[x]]_vars

\* Two deletes of one appointment have both passed the ownership check and
\* both completed: the deleteRow call of the second matched no row.
C22_Witness ==
  /\ \A s \in {1, 2} :
       /\ Answered(s, "DELETE /api/appointments/:id")
       /\ reqs[s].status = 200
       /\ "deleteRow" \in Range(reqs[s].calls)
  /\ reqs[1].req.id = reqs[2].req.id
  /\ selectRows(db, "appointments", [id |-> reqs[1].req.id]) = {}

\* equality filters for the gateway: by id, by id and owner, by owner, by parent
GatewayFilters(table) ==
  IF table = "parents"
  THEN {[id |-> i, user_id |-> u] : i \in Ids(table), u \in Users}
       \cup {[user_id |-> u] : u \in Users}
  ELSE {[id |-> i] : i \in Ids(table)} \cup {[parent_id |-> p] : p \in ParentIds}

GatewayUpdates == {EmptyBody, [date |-> Day2]}

\* C23: selectRow returns a row only when exactly one row matches all its
\* equality filters, that row, and fails when none or more than one matches;
\* updateRow with filters that match no row fails and leaves every table as it
\* was. And a handler that looks its target up with selectRow goes on exactly
\* when one row matched: DELETE /api/parents/:id is answered 404 at once
\* unless exactly one parent has the id and the caller as its owner.
C23_SelectRowExactlyOne ==
  [][/\ \A t \in Tables : \A f \in GatewayFilters(t) :
          LET m == {r \in db[t] : \A k \in DOMAIN f : r[k] = f[k]}
              selected == selectRow(db, t, f)
          IN  /\ Cardinality(m) = 1 => selected.error = "" /\ selected.data \in m
              /\ Cardinality(m) # 1 => selected.error # "" /\ selected.data = EmptyBody
              /\ m = {} => \A u \in GatewayUpdates :
                   /\ updateRow(World, t, f, u).error # ""
                   /\ updateRow(World, t, f, u).w = World
     /\ \A s \in Slots :
          (Begins(s) /\ reqs'[s].req.route = "DELETE /api/parents/:id" /\ reqs'[s].user # "") =>
            LET m == {r \in db.parents : r.id = reqs'[s].req.id /\ r.user_id = reqs'[s].user}
            IN  /\ Cardinality(m) = 1 => reqs'[s].pc = "deleteRow"
                /\ Cardinality(m) # 1 =>
                     /\ reqs'[s].pc = "done"
                     /\ reqs'[s].status = 404
                     /\ db' = db]_vars

\* DELETE /api/parents/:id has been answered 404 after its selectRow matched no
\* row, in a state where one filter by parent matches two appointments or more
\* and one by id matches exactly one.
C23_Witness ==
  \E s \in Slots :
    /\ Answered(s, "DELETE /api/parents/:id")
    /\ reqs[s].status = 404
    /\ "selectRow" \in Range(reqs[s].calls)
    /\ selectRows(db, "parents", [id |-> reqs[s].req.id, user_id |-> reqs[s].user]) = {}
    /\ \E f \in GatewayFilters("appointments") : Cardinality(selectRows(db, "appointments", f)) > 1
    /\ \E f \in GatewayFilters("appointments") : Cardinality(selectRows(db, "appointments", f)) = 1

\* C24: every parent row created through POST /api/parents has the
\* authenticated caller as its user_id, whatever user_id or id the body names.
\* The step that takes the request either adds no row or adds one row, of a
\* new id and of the caller, and answers 201; in every step a parent that
\* stays keeps its owner; and at every state no two parents share an id, so
\* that each parent has exactly one owner, the user who created it.
C24_CreatedParentOwnedByCaller ==
  [][/\ \A p, q \in db.parents : p.id = q.id => p = q
     /\ \A p \in db.parents : \A q \in db'.parents : q.id = p.id => q.user_id = p.user_id
     /\ \A s \in Slots :
          (Begins(s) /\ reqs'[s].req.route = "POST /api/parents") =>
            \/ /\ db' = db
               /\ reqs'[s].status # 201
            \/ /\ reqs'[s].status = 201
               /\ reqs'[s].user # ""
               /\ \E row \in db'.parents :
                    /\ db'.parents = db.parents \cup {row}
                    /\ row.id \notin {p.id : p \in db.parents}
                    /\ row.id = nextId.parents
                    /\ row.user_id = reqs'[s].user
                    /\ reqs'[s].body.parent = row
     /\ (\A s \in Slots : ~Begins(s) \/ reqs'[s].req.route # "POST /api/parents") =>
          {p.id : p \in db'.parents} \subseteq {p.id : p \in db.parents}]_vars

\* POST /api/parents with a body that names another user as user_id, and an
\* id, has been answered 201 and the created parent is the caller's, under the
\* id the table issued.
C24_Witness ==
  \E s \in Slots :
    /\ Answered(s, "POST /api/parents")
    /\ reqs[s].status = 201
    /\ {"user_id", "id"} \subseteq DOMAIN reqs[s].req.body
    /\ reqs[s].req.body.user_id # reqs[s].user
    /\ reqs[s].body.parent.user_id = reqs[s].user
    /\ reqs[s].body.parent.id # reqs[s].req.body.id
    /\ reqs[s].body.parent \in db.parents

\* In this step the insertRow call of a create of slot s completes, the parent
\* it names having been deleted since the ownership check.
InsertsUnderDeletedParent(s) ==
  /\ Resumes(s)
  /\ reqs[s].req.route \in CreateRoutes
  /\ reqs[s].pending.parent_id \notin {p.id : p \in db.parents}

\* C25: under any interleaving of concurrent create-appointment, create-note
\* and delete-parent requests, each an ownership check followed by a separate
\* mutation, every stored appointment and medical note references a parent
\* that exists; a create whose parent was deleted after its ownership check
\* stores nothing and is not answered 201.
C25_ChildrenReferenceExistingParent ==
  [][/\ ReferencesHold(db)
     /\ ReferencesHold(db')
     /\ \A s \in Slots :
          InsertsUnderDeletedParent(s) =>
            /\ db' = db
            /\ nextId' = nextId
            /\ reqs'[s].status = 500]_vars

\* A create of an appointment passed its ownership check, its parent was then
\* deleted by another request, and the create has been answered 500 after its
\* insertRow call, with no appointment stored.
C25_Witness ==
  \E s, t \in Slots :
    /\ Answered(s, "POST /api/appointments")
    /\ reqs[s].status = 500
    /\ "insertRow" \in Range(reqs[s].calls)
    /\ Answered(t, "DELETE /api/parents/:id")
    /\ reqs[t].status = 200
    /\ reqs[t].req.id = reqs[s].req.body.parent_id
    /\ db.appointments = {}
    /\ nextId.parents > reqs[t].req.id

\* the lists of the client are empty
NoData(c) == c.parents = <<>> /\ c.appointments = <<>> /\ c.medicalNotes = <<>>

\* C26 as stated: over every sequence of session-restore, login, register,
\* demo-mode, create-parent and logout events, failed network calls included,
\* the current screen is other than 'login' or 'register' only while a user
\* object is set; and after logout the stored token, the stored user, the
\* parents, the appointments and the notes are empty, and stay so as long as
\* no user is set.
C26_ScreenOnlyWithUser ==
  [][/\ client'.currentScreen \notin {"login", "register"} => client'.user # None
     /\ (client.user = None /\ client'.user = None /\ client.mounted /\ NoData(client)) =>
          NoData(client')
     /\ (client.user # None /\ client'.user = None) =>
          /\ client'.storage = NoStorage
          /\ client'.currentScreen = "login"]_vars

\* C27 as stated: in the client with persistent demo mode the isDemoMode flag
\* is set only while the session is a demo session. After demo mode and a
\* logout, a user who logs in with real credentials has handleCreateParent
\* send the parent to POST /api/parents, so that such a user never has a parent
\* that was made in the browser; and the demo auto-save never writes the data
\* of such a user into the stored demo data.
C27_DemoFlagOnlyInDemoSession ==
  [][/\ (client'.storage.isDemoMode /\ client'.user # None) => client'.user \in DemoUsers
     /\ client'.user \notin DemoUsers \cup {None} =>
          \A i \in 1..Len(client'.parents) : client'.parents[i] = 0
     /\ client'.storage.demoData.user \in DemoUsers \cup {None}]_vars

\* the save requests waiting for the answer to POST /api/notes
Saving(c) == {call \in c.calls : call.fn = "saveQuickNote" /\ call.at = "post"}

\* C28: quick-note auto-save is a per-parent debounce. At any time at most one
\* timer is pending per parent, the one in the parent's slot; a keystroke
\* cancels the timer that was pending for its parent and sets one of 2
\* seconds that holds the typed text; a save request is sent only by a timer
\* whose 2 seconds have passed, for a parent whose textarea had no keystroke
\* in those 2 seconds, with the text of the last keystroke; and a text that is
\* empty after trimming is never sent.
C28_QuickNoteDebounce ==
  [][/\ \A p \in NoteParents :
          LET pending == {t \in client'.timers : t.parentId = p}
          IN  /\ Cardinality(pending) <= 1
              /\ \A t \in pending : t.id = client'.noteTimeout[p]
     /\ \A p \in NoteParents :
          client'.noteTimeout[p] # client.noteTimeout[p] =>
            /\ \A t \in client.timers : t.parentId = p => t \notin client'.timers
            /\ \E t \in client'.timers :
                 /\ t.id = client'.noteTimeout[p]
                 /\ t.left = Delay
                 /\ t.note = client'.lastEdit[p].note
     /\ \A call \in Saving(client') \ Saving(client) :
          /\ \E t \in client.timers \ client'.timers :
               /\ t.left = 0
               /\ t.parentId = call.parentId
               /\ t.note = call.note
          /\ client.lastEdit[call.parentId].age = Delay
          /\ client.lastEdit[call.parentId].note = call.note
          /\ trim(call.note) # <<>>
          /\ call.token # None]_vars

\* After three keystrokes in the textarea of one parent, the last of them
\* 'ab', one save request is in flight, it carries 'ab', and no timer is
\* pending.
C28_Witness ==
  /\ client.nextTimer = 4
  /\ client.noteTimeout["p2"] = 0
  /\ client.timers = {}
  /\ \E call \in Saving(client) : call.parentId = "p1" /\ call.note = <<"a", "b">>
  /\ Cardinality(client.calls) = 1

\* C29: over every sequence of feeds and calls the pet's happiness stays in
\* 0..100 and totalPoints never decreases; a step that changes petData is a
\* feed (happiness plus 20 capped at 100, 10 points, streak plus 1 when the
\* feed before was at most one day ago, 0 when it was more than two days ago,
\* unchanged otherwise) or a call (happiness plus 30 capped at 100, 50 points,
\* streak unchanged).
C29_PetHappinessPointsStreak ==
  [][LET before == client.petData
         after == client'.petData
         sinceLastFeed == client.now - before.lastFed
     IN  /\ after.happiness \in 0..100
         /\ after.totalPoints >= before.totalPoints
         /\ after # before =>
              \/ /\ after.totalPoints = before.totalPoints + 10
                 /\ after.happiness = Min(100, before.happiness + 20)
                 /\ after.streak = IF sinceLastFeed <= DayLen THEN before.streak + 1
                                   ELSE IF sinceLastFeed > 2 * DayLen THEN 0
                                   ELSE before.streak
              \/ /\ after.totalPoints = before.totalPoints + 50
                 /\ after.happiness = Min(100, before.happiness + 30)
                 /\ after.streak = before.streak]_vars

\* After four feeds and one call the happiness is at its cap and the streak
\* is 2: not every feed raised it.
C29_Witness ==
  /\ client.petData.totalPoints = 90
  /\ client.petData.happiness = 100
  /\ client.petData.streak = 2
  /\ client.petData.lastCall # <<>>

Once(seq) == \A i, j \in DOMAIN seq : seq[i] = seq[j] => i = j

\* no id in both lists, none twice in either
ListsApart(c) ==
  /\ IdsOf(c.parents) \cap IdsOf(c.recentlyDeleted) = {}
  /\ Once(c.parents)
  /\ Once(c.recentlyDeleted)

\* C30: a remove, a restore or a clear-all (a step that leaves the server's
\* list as it is) from lists that share no id and hold none twice leads to
\* such lists again, so that over every sequence of the three from the lists
\* of a session's start no id is in both lists or twice in one; and removing
\* a parent and then restoring it gives the set of parents there was before.
C30_RemoveRestoreKeepsListsApart ==
  [][/\ (client'.server = client.server /\ ListsApart(client)) => ListsApart(client')
     /\ \A id \in IdsOf(client'.parents) :
          IdsOf(restoreParent(removeParent(client', id), id).parents) = IdsOf(client'.parents)]_vars

\* One parent was removed and restored, the other removed and cleared: the
\* first stands alone in the list, nothing is left to restore and the server
\* was not asked.
C30_Witness ==
  /\ client.parents = <<1>>
  /\ client.recentlyDeleted = <<>>
  /\ client.showDeleted
  /\ client.server = ServerParents

====
